---- MODULE Spec2Model ----
(***************************************************************************)
(* A model of liblifthttp's asynchronous engine: the Request, the          *)
(* RequestPool free-list, the SharedRequest / RequestHandle ownership      *)
(* chain and the EventLoop (pending queue, async wake, engine completion,  *)
(* response-wait deadline set, Stop and the destructor).                   *)
(*                                                                         *)
(* Threads.  User threads run Reserve, Produce, AddHeader, StartRequest    *)
(* (two steps: the stopping check, then the locked push), handle drops,    *)
(* Stop, HasUnfinishedRequests (two steps: the atomic counter read, then   *)
(* the locked queue read) and the destructor.  The loop thread runs one    *)
(* handler at a time: requests_accept_async (one step for the swap, one    *)
(* per grabbed request, one for the tail), checkActions, and               *)
(* StopTimedOutRequests (one step per walked entry).                       *)
(*                                                                         *)
(* Ownership.  A RequestHandle holds a std::shared_ptr<SharedRequest>      *)
(* (RequestHandle.h); the SharedRequest destructor returns the Request to  *)
(* the pool (SharedRequest.cpp).  refs[r] is the use count.  The handle    *)
(* moved into StartRequest is the loop's reference: release() at           *)
(* EventLoop.cpp:482 keeps the Request out of the vector's clear(), and    *)
(* the reference is handed to the RequestHandle that onComplete builds     *)
(* when the engine's completion (or the failed registration) is            *)
(* dispatched.  A deadline entry holds its own reference (Request.h:519).  *)
(* The engine's private pointer designates the Request                     *)
(* (EventLoop.cpp:275-276).                                                *)
(*                                                                         *)
(* Undefined behaviour.  Erasing or reading through a std::set iterator    *)
(* whose node was already erased is undefined; the model draws its         *)
(* outcome from UBOutcomes (the erase is harmless, or the process          *)
(* aborts).                                                                *)
(***************************************************************************)
EXTENDS Integers, Sequences, FiniteSets, TLC

\* ---------------------------------------------------------------- bounds
\* Number of Request objects the pool may construct.
NReq == 2
\* Number of Produce calls in a run (more than NReq, so objects are reused).
MaxProduce == 2
\* The loop clock (uv_now) runs over ClockStart..ClockStart + MaxTime.
MaxTime == 1
\* uv_now when the loop starts: the clock does not start at 0.
ClockStart == 1
\* The largest download cap and the largest chunk of one write callback.
MaxCap == 2
MaxChunk == 2
\* The largest resource a synchronous transfer downloads (more than MaxCap).
MaxResource == 3
\* The largest raw body / number of multipart fields a user sets.
MaxBody == 1
\* HEADER_DEFAULT_MEMORY_BYTES, scaled: the bytes m_request_headers reserves
\* at first.  A header of the runs takes 4 bytes (empty value) or 5.
HeaderMemory == 8
\* AddHeader calls on one Request in the runs that read the headers back.
MaxHeaderCalls == 3
\* User threads that share one pool without an event loop.
NThreads == 2
\* Bytes / header lines the engine may write into one response.
MaxData == 1
\* Header lines a user may add to one request.
MaxHeaders == 1

Req == 1..NReq
Threads == 1..NThreads
\* The response-wait times a user may ask for; None is std::nullopt.
None == 0
WaitTimes == {None, 1}
\* Arguments of Produce: urls (0 is the empty string), handlers (0 is nullptr),
\* curl timeouts (0 asks for none).
Urls == {0, 1}
Handlers == {0, 1}
CurlTimeouts == {0, 1}
\* total_time as taken from the engine (CURLINFO_TOTAL_TIME), not a loop time.
EngineTime == -1

\* CURLcode values the completion-status mapping distinguishes.
CurlCodes ==
    {"CURLE_OK", "CURLE_GOT_NOTHING", "CURLE_OPERATION_TIMEDOUT",
     "CURLE_COULDNT_CONNECT", "CURLE_COULDNT_RESOLVE_HOST",
     "CURLE_SSL_CONNECT_ERROR", "CURLE_WRITE_ERROR", "CURLE_SEND_ERROR",
     "CURLE_OTHER"}
\* RequestStatus values.
RequestStatuses ==
    {"BUILDING", "EXECUTING", "SUCCESS", "RESPONSE_EMPTY", "TIMEOUT",
     "CONNECT_ERROR", "CONNECT_DNS_ERROR", "CONNECT_SSL_ERROR",
     "DOWNLOAD_ERROR", "ERROR_FAILED_TO_START", "ERROR",
     "RESPONSE_WAIT_TIME_TIMEOUT"}
\* The result codes the engine reports in this model's runs.
EngineResults == {"CURLE_OK", "CURLE_OPERATION_TIMEDOUT"}

\* The result codes curl_easy_perform returns of its own accord in the
\* synchronous runs.
PerformResults == {"CURLE_OK", "CURLE_OPERATION_TIMEDOUT", "CURLE_WRITE_ERROR"}

\* Header names (each one character long) and values (0 is the empty value,
\* 1 is one character long).
HeaderNames == {1, 2}
HeaderValues == {0, 1}

\* Outcomes of a use of an invalidated std::set iterator.
UBOutcomes == {"benign", "crash"}

VARIABLES
    requests,       \* Request objects: r -> record of the Request's members
    created,        \* the Request objects constructed so far
    m_requests,     \* RequestPool::m_requests, the free-list (back = last)
    produced,       \* number of Produce calls so far
    m_is_stopping,  \* EventLoop::m_is_stopping
    m_pending_requests,  \* EventLoop::m_pending_requests
    m_grabbed_requests,  \* EventLoop::m_grabbed_requests
    m_active_request_count,  \* EventLoop::m_active_request_count
    wrappers,       \* EventLoop::m_request_timeout_wrappers (the deadline set)
    registered,     \* transfers added to the multi handle (engine)
    asyncSent,      \* uv_async_send pending on m_async
    reqTimer,       \* m_request_timer: 0 = stopped, else the loop time it expires at
    now,            \* uv_now(m_loop)
    loopPc,         \* position of the loop thread
    drainIdx,       \* index of the next grabbed request of the drain
    cursor,         \* current_wrapper of the walk (node identity, 0 = end())
    crashed,        \* the process aborted
    startPc,        \* r -> position of the StartRequest call moving r
    dtorPc,         \* position of ~EventLoop
    huPc,           \* position of a HasUnfinishedRequests call
    hist            \* observations of the run: Stop() has returned; the requests
                    \* pushed and not yet handled by a drain (waiting, in push
                    \* order); the requests in hand since their last Produce in
                    \* the order they were pushed (pushed) and in the order
                    \* checkActions began their callbacks (done); the last call
                    \* on a Request with its arguments and outcome; for the
                    \* threads sharing a pool, the thread holding each Request's
                    \* handle (holder, 0 = none), each thread's largest number
                    \* of handles held at once (peak), the Requests reserved

vars ==
    <<requests, created, m_requests, produced, m_is_stopping,
      m_pending_requests, m_grabbed_requests, m_active_request_count,
      wrappers, registered, asyncSent, reqTimer, now, loopPc,
      drainIdx, cursor, crashed, startPc, dtorPc, huPc, hist>>

\* ------------------------------------------------------------- Request
\* Members of a Request as the constructor leaves them (Request.h defaults,
\* Request::Request, Request::init), with response wait time w.
NewRequest(w) ==
    [ status     |-> "BUILDING",   \* m_status_code
      called     |-> FALSE,        \* m_on_complete_has_been_called
      wait       |-> w,            \* m_response_wait_time
      iter       |-> 0,            \* m_response_wait_time_set_iterator (0 = empty)
      total      |-> None,         \* m_total_time (None = empty)
      reqHeaders |-> 0,            \* m_request_headers_idx.size()
      hdrCap     |-> HeaderMemory, \* m_request_headers.capacity()
      hdrSize    |-> 0,            \* m_request_headers.size()
      hdrGen     |-> 0,            \* the allocation m_request_headers.data() is in
      hdrIdx     |-> <<>>,         \* m_request_headers_idx: views (name, value, and
                                   \* the allocation the view points into)
      committed  |-> FALSE,        \* m_headers_committed
      curlHeaders|-> <<>>,         \* m_curl_request_headers: per node, what its
                                   \* string may hold (<<>> = nullptr)
      respHeaders|-> 0,            \* m_response_headers_idx.size()
      respData   |-> 0,            \* m_response_data.size()
      url        |-> 0,            \* m_url (0 = empty)
      handler    |-> 0,            \* m_on_complete_handler (0 = nullptr)
      curlTimeout|-> 0,            \* CURLOPT_TIMEOUT_MS of the handle (0 = none)
      maxBytes   |-> -1,           \* m_max_download_bytes
      bytesWritten |-> 0,          \* m_bytes_written
      data       |-> 0,            \* m_request_data.size()
      mime       |-> 0,            \* parts of m_mime_handle (0 = nullptr)
      failed     |-> FALSE,        \* curl_multi_add_handle refused this Produce's transfer
      setData    |-> FALSE,        \* SetRequestData has returned since the last Produce
      refs       |-> 0,            \* use count of the owning SharedRequest
      userHeld   |-> FALSE,        \* a user thread holds a RequestHandle
      loopHeld   |-> FALSE,        \* the loop (queue / engine) holds the reference
      cb         |-> 0,            \* invocations of the handler set by the last Produce
      returns    |-> 0,            \* returnRequest calls since the last Produce
      accepted   |-> FALSE,        \* StartRequest returned true for this Produce
      refused    |-> FALSE,        \* StartRequest returned false for this Produce
      afterStop  |-> FALSE ]       \* StartRequest was called after Stop() returned

\* Request::SetOnCompleteHandler
SetOnCompleteHandler(q, h) == [q EXCEPT !.handler = h]

\* Request::SetUrl: an empty url is refused and the Request keeps what it had.
SetUrl(q, url) == IF url = 0 THEN q ELSE [q EXCEPT !.url = url]

\* Request::SetCurlTimeout: only a positive timeout is handed to the engine.
SetCurlTimeout(q, timeout) ==
    IF timeout > 0 THEN [q EXCEPT !.curlTimeout = timeout] ELSE q

\* Request::SetResponseWaitTime
SetResponseWaitTime(q, w) == [q EXCEPT !.wait = w]

\* Request::SetMaxDownloadBytes
SetMaxDownloadBytes(q, max_download_bytes) ==
    [q EXCEPT !.maxBytes = max_download_bytes, !.bytesWritten = 0]

\* Request::Request(request_pool, url, curl_timeout, response_wait_time,
\* on_complete_handler): init, SetUrl, SetCurlTimeout, and the wait time when
\* one is given.
Construct(url, curl_timeout, response_wait_time, on_complete_handler) ==
    LET q0 == SetMaxDownloadBytes(
                  SetOnCompleteHandler(NewRequest(None), on_complete_handler), -1)
        q1 == SetCurlTimeout(SetUrl(q0, url), curl_timeout)
    IN IF response_wait_time # None
       THEN SetResponseWaitTime(q1, response_wait_time)
       ELSE q1

\* RequestPool::Produce, the else branch's calls on the popped Request: the
\* handler, the url and the curl timeout are set; the response wait time is
\* not an argument of any of them.
Reconfigure(q, url, curl_timeout, response_wait_time, on_complete_handler) ==
    SetCurlTimeout(SetUrl(SetOnCompleteHandler(q, on_complete_handler), url),
                   curl_timeout)

\* Request::getRemainingDownloadBytes
getRemainingDownloadBytes(q) == q.maxBytes - q.bytesWritten

\* curl_write_data: the number of bytes of a chunk of data_length bytes that
\* is appended (and returned to the engine).
writtenLength(q, data_length) ==
    IF q.maxBytes > -1
    THEN LET bytes_left_to_write == getRemainingDownloadBytes(q)
         IN IF bytes_left_to_write > -1
            THEN IF bytes_left_to_write < data_length
                 THEN bytes_left_to_write ELSE data_length
            ELSE 0
    ELSE data_length

\* curl_write_data on a chunk of data_length bytes.
curl_write_data(q, data_length) ==
    [q EXCEPT !.respData = @ + writtenLength(q, data_length),
              !.bytesWritten = @ + writtenLength(q, data_length)]

\* The capacity AddHeader's loop ends with: doubled until total_len fits.
RECURSIVE Doubled(_, _)
Doubled(capacity, total_len) ==
    IF capacity < total_len THEN Doubled(capacity * 2, total_len) ELSE capacity

\* Request::AddHeader(name, value): names are one character long and value
\* is the value's length.  When the bytes do not fit the capacity,
\* m_request_headers.reserve moves the string to a new allocation (the views
\* already in the index keep pointing into the old one); the header is
\* appended and a view of it goes to the back of the index.
AddHeaderTo(q, name, value) ==
    LET header_len == 1 + value + 3
        total_len == q.hdrSize + header_len
        grow == q.hdrCap < total_len
        gen == IF grow THEN q.hdrGen + 1 ELSE q.hdrGen
    IN [q EXCEPT !.committed = FALSE,
                 !.hdrCap = Doubled(@, total_len),
                 !.hdrGen = gen,
                 !.hdrSize = total_len,
                 !.hdrIdx = Append(@, [name |-> name, value |-> value, gen |-> gen]),
                 !.reqHeaders = @ + 1]

\* What a read of freed memory gives when it is not the header any more.
Freed == <<0, 0>>

\* What reading one view of the index may give: the header it was made for,
\* or, when the allocation it points into was freed, anything (Freed).
ReadView(q, v) ==
    IF v.gen = q.hdrGen THEN {<<v.name, v.value>>}
    ELSE {<<v.name, v.value>>, Freed}

\* Request::GetRequestHeaders read through: the lists a caller may see.
GetRequestHeaders(q) ==
    {hs \in [1..Len(q.hdrIdx) -> {<<n, v>> : n \in HeaderNames, v \in HeaderValues}
                                   \cup {Freed}] :
        \A i \in 1..Len(q.hdrIdx) : hs[i] \in ReadView(q, q.hdrIdx[i])}

\* Request::clearResponseBuffers
clearResponseBuffers(q) ==
    [q EXCEPT !.respHeaders = 0, !.respData = 0]

\* Variant: a Reset that leaves the response buffers as they are.
ResetKeepsBuffers(q) ==
    [q EXCEPT
        !.url = 0,
        !.data = 0,
        !.mime = 0,
        !.curlTimeout = 0,
        !.maxBytes = -1,
        !.bytesWritten = 0,
        !.reqHeaders = 0,
        !.hdrSize = 0,
        !.hdrIdx = <<>>,
        !.curlHeaders = <<>>,
        !.committed = FALSE,
        !.status = "BUILDING",
        !.called = FALSE,
        !.wait = None,
        !.iter = 0]

\* Request::Reset: clears the url, both header stores, the body, the response
\* buffers; status BUILDING; on-complete flag, wait time and iterator cleared.
\* curl_easy_reset drops the handle's options (the timeout among them), the
\* download cap goes back to -1 and the byte counter to 0.  m_total_time and
\* m_on_complete_handler are not touched.
Reset(q) ==
    [clearResponseBuffers(q) EXCEPT
        !.url = 0,
        !.data = 0,
        !.mime = 0,
        !.curlTimeout = 0,
        !.maxBytes = -1,
        !.bytesWritten = 0,
        !.reqHeaders = 0,
        !.hdrSize = 0,
        !.hdrIdx = <<>>,
        !.curlHeaders = <<>>,
        !.committed = FALSE,
        !.status = "BUILDING",
        !.called = FALSE,
        !.wait = None,
        !.iter = 0]

\* Request::prepareForPerform: the response buffers are cleared; when the
\* headers are not committed and the index is not empty the engine's list is
\* freed and rebuilt, one curl_slist_append per view of the index, each
\* copying what the view reads; status EXECUTING.
prepareForPerform(q) ==
    LET commit == ~q.committed /\ q.reqHeaders > 0
    IN [clearResponseBuffers(q) EXCEPT
           !.curlHeaders = IF commit
                           THEN [i \in 1..Len(q.hdrIdx) |-> ReadView(q, q.hdrIdx[i])]
                           ELSE @,
           !.committed = IF commit THEN TRUE ELSE @,
           !.status = "EXECUTING"]

\* Variant: CURLE_SEND_ERROR has no case of its own and falls to the default.
setCompletionStatusNoSendCase(old, curl_code, capHit) ==
    IF old = "RESPONSE_WAIT_TIME_TIMEOUT" THEN old
    ELSE CASE curl_code = "CURLE_OK" -> "SUCCESS"
           [] curl_code = "CURLE_GOT_NOTHING" -> "RESPONSE_EMPTY"
           [] curl_code = "CURLE_OPERATION_TIMEDOUT" -> "TIMEOUT"
           [] curl_code = "CURLE_COULDNT_CONNECT" -> "CONNECT_ERROR"
           [] curl_code = "CURLE_COULDNT_RESOLVE_HOST" -> "CONNECT_DNS_ERROR"
           [] curl_code = "CURLE_SSL_CONNECT_ERROR" -> "CONNECT_SSL_ERROR"
           [] curl_code = "CURLE_WRITE_ERROR" ->
                  IF capHit THEN "SUCCESS" ELSE "DOWNLOAD_ERROR"
           [] OTHER -> "ERROR"

\* Variant: the engine's result code overwrites a response-wait timeout.
setCompletionStatusOverwrites(old, curl_code, capHit) ==
    CASE curl_code = "CURLE_OK" -> "SUCCESS"
      [] curl_code = "CURLE_GOT_NOTHING" -> "RESPONSE_EMPTY"
      [] curl_code = "CURLE_OPERATION_TIMEDOUT" -> "TIMEOUT"
      [] curl_code = "CURLE_COULDNT_CONNECT" -> "CONNECT_ERROR"
      [] curl_code = "CURLE_COULDNT_RESOLVE_HOST" -> "CONNECT_DNS_ERROR"
      [] curl_code = "CURLE_SSL_CONNECT_ERROR" -> "CONNECT_SSL_ERROR"
      [] curl_code = "CURLE_WRITE_ERROR" ->
             IF capHit THEN "SUCCESS" ELSE "DOWNLOAD_ERROR"
      [] curl_code = "CURLE_SEND_ERROR" -> "ERROR_FAILED_TO_START"
      [] OTHER -> "ERROR"

\* Request::setCompletionStatus; capHit is getRemainingDownloadBytes() == 0.
setCompletionStatus(old, curl_code, capHit) ==
    IF old = "RESPONSE_WAIT_TIME_TIMEOUT" THEN old
    ELSE CASE curl_code = "CURLE_OK" -> "SUCCESS"
           [] curl_code = "CURLE_GOT_NOTHING" -> "RESPONSE_EMPTY"
           [] curl_code = "CURLE_OPERATION_TIMEDOUT" -> "TIMEOUT"
           [] curl_code = "CURLE_COULDNT_CONNECT" -> "CONNECT_ERROR"
           [] curl_code = "CURLE_COULDNT_RESOLVE_HOST" -> "CONNECT_DNS_ERROR"
           [] curl_code = "CURLE_SSL_CONNECT_ERROR" -> "CONNECT_SSL_ERROR"
           [] curl_code = "CURLE_WRITE_ERROR" ->
                  IF capHit THEN "SUCCESS" ELSE "DOWNLOAD_ERROR"
           [] curl_code = "CURLE_SEND_ERROR" -> "ERROR_FAILED_TO_START"
           [] OTHER -> "ERROR"

\* Request::setTotalTime; m_start_time keeps its initial value 0.
setTotalTime(finish_time) ==
    IF finish_time # None THEN finish_time - 0 ELSE EngineTime

\* --------------------------------------------------- pool and ownership
\* The part of the state that onComplete and the handle destructors change:
\* the Request objects, the free-list, the deadline set, the abort flag.
Heap == [rq |-> requests, fl |-> m_requests, ws |-> wrappers, dead |-> crashed]

\* Variant: the returned Request is reset and never pushed on the free-list.
returnRequestLost(H, r) ==
    [H EXCEPT !.rq[r] = [Reset(@) EXCEPT !.returns = @ + 1]]

\* RequestPool::returnRequest: Reset, then push on the free-list under the lock.
returnRequest(H, r) ==
    [H EXCEPT !.rq[r] = [Reset(@) EXCEPT !.returns = @ + 1],
              !.fl = Append(@, r)]

\* Variant: every handle that goes away returns the Request to the pool.
DropRefAlwaysReturns(H, r) ==
    returnRequest([H EXCEPT !.rq[r].refs = @ - 1], r)

\* A std::shared_ptr<SharedRequest> goes away; SharedRequest::~SharedRequest
\* runs on the last one and returns the Request to the pool.
DropRef(H, r) ==
    IF H.rq[r].refs = 1
    THEN returnRequest([H EXCEPT !.rq[r].refs = 0], r)
    ELSE [H EXCEPT !.rq[r].refs = @ - 1]

\* The heap H is the next state of the four heap variables.
Install(H) ==
    /\ requests' = H.rq
    /\ m_requests' = H.fl
    /\ wrappers' = H.ws
    /\ crashed' = H.dead

\* The deadline-set node with identity id, if it is still in the set.
NodeOf(ws, id) == {e \in ws : e.id = id}

\* std::set order: operator< compares m_timeout_time (Request.h:533-536);
\* begin() is the node with the least time.
Begin(ws) == CHOOSE e \in ws : \A f \in ws : e.time <= f.time

\* set.erase(it) of a valid iterator returns the next node (0 = end()).
NextAfter(ws, e) ==
    LET later == {f \in ws : f.time > e.time}
    IN IF later = {} THEN 0 ELSE Begin(later).id

\* Variant: the erased node's shared_ptr is not destroyed with the node.
RemoveTimeoutLeaksNode(H, id, ub) ==
    IF NodeOf(H.ws, id) # {}
    THEN [H EXCEPT !.ws = @ \ NodeOf(H.ws, id)]
    ELSE IF ub = "crash" THEN [H EXCEPT !.dead = TRUE] ELSE H

\* EventLoop::RemoveTimeoutByIterator: erase the node the iterator designates;
\* the node's shared_ptr goes with it.  Erasing a node that is no longer in
\* the set is undefined: outcome ub.
RemoveTimeoutByIterator(H, id, ub) ==
    IF NodeOf(H.ws, id) # {}
    THEN LET e == CHOOSE x \in NodeOf(H.ws, id) : TRUE
         IN DropRef([H EXCEPT !.ws = @ \ {e}], e.req)
    ELSE IF ub = "crash" THEN [H EXCEPT !.dead = TRUE] ELSE H

\* Variant: the completion runs the handler and at once hands the Request
\* back to the pool, whoever else still holds it.
onCompleteFirstPoolsAtOnce(H, r, finish_time, keep) ==
    returnRequest([H EXCEPT !.rq[r].called = TRUE, !.rq[r].cb = @ + 1], r)

\* Request::onComplete(event_loop, shared_request, finish_time) on Request r.
\* fromEntry: the shared_request is a copy of a deadline entry's pointer
\* (the timer walk); otherwise it is the loop's reference.  keep: the user's
\* handler moves the handle it receives out of the callback (else the handle
\* dies when the handler returns).
onCompleteFirst(H, r, finish_time, keep) ==
    LET a == [H EXCEPT
                !.rq[r].called = TRUE,
                !.rq[r].status =
                    IF finish_time # None THEN "RESPONSE_WAIT_TIME_TIMEOUT" ELSE @,
                !.rq[r].total = setTotalTime(finish_time),
                !.rq[r].cb = @ + 1]
    IN IF keep THEN [a EXCEPT !.rq[r].userHeld = TRUE] ELSE DropRef(a, r)

\* Variant: onComplete without the exchange on the on-complete flag.
onCompleteIgnoresFlag(H, r, fromEntry, finish_time, keep, ub) ==
    LET H1 == IF fromEntry
              THEN [H EXCEPT !.rq[r].refs = @ + 1]
              ELSE [H EXCEPT !.rq[r].loopHeld = FALSE]
        H2 == onCompleteFirst(H1, r, finish_time, keep)
    IN IF H2.rq[r].iter # 0
       THEN RemoveTimeoutByIterator(H2, H2.rq[r].iter, ub)
       ELSE H2

onComplete(H, r, fromEntry, finish_time, keep, ub) ==
    LET H1 == IF fromEntry
              THEN [H EXCEPT !.rq[r].refs = @ + 1]
              ELSE [H EXCEPT !.rq[r].loopHeld = FALSE]
        first == ~H1.rq[r].called
        H2 == IF first THEN onCompleteFirst(H1, r, finish_time, keep) ELSE H1
        H3 == IF H2.rq[r].iter # 0
              THEN RemoveTimeoutByIterator(H2, H2.rq[r].iter, ub)
              ELSE H2
    IN IF H3.dead \/ first THEN H3 ELSE DropRef(H3, r)

\* ---------------------------------------------------------------- Init
\* The members as the constructors leave them.
InitState ==
    /\ requests = [r \in Req |-> NewRequest(None)]
    /\ created = {}
    /\ m_requests = <<>>
    /\ produced = 0
    /\ m_is_stopping = FALSE
    /\ m_pending_requests = <<>>
    /\ m_grabbed_requests = <<>>
    /\ m_active_request_count = 0
    /\ wrappers = {}
    /\ registered = {}
    /\ asyncSent = FALSE
    /\ reqTimer = 0
    /\ now = ClockStart
    /\ loopPc = "idle"
    /\ drainIdx = 0
    /\ cursor = 0
    /\ crashed = FALSE
    /\ startPc = [r \in Req |-> "none"]
    /\ dtorPc = "none"
    /\ huPc = "idle"

\* Nothing observed yet.
InitHist ==
    [stopReturned |-> FALSE, waiting |-> <<>>, pushed |-> <<>>,
     done |-> <<>>, op |-> "none", obj |-> 0, arg |-> <<>>, threw |-> FALSE,
     holder |-> [r \in Req |-> 0], peak |-> [t \in Threads |-> 0],
     reserved |-> 0,
     closing |-> {}, closed |-> {}, stop |-> FALSE, running |-> TRUE,
     lock |-> <<"free", 0>>, touch |-> "none",
     m_mutex |-> 0, tpc |-> [t \in Threads |-> "idle"],
     tobj |-> [t \in Threads |-> 0]]

Init ==
    /\ InitState
    /\ hist = InitHist

\* The sequence without r.
Without(seq, r) == SelectSeq(seq, LAMBDA x : x # r)

\* The requests whose callback this step began from checkActions (the
\* transport path): the handler ran once more, and not for a failed start.
TransportDone ==
    {x \in Req : requests'[x].cb = requests[x].cb + 1 /\ ~requests'[x].failed}

\* The callbacks begun on the transport path, in order.
NoteDone(seq) ==
    IF TransportDone = {} THEN seq
    ELSE Append(seq, CHOOSE x \in TransportDone : TRUE)

\* What the loop thread owns stays as it is.
LoopUnchanged ==
    UNCHANGED <<m_grabbed_requests, m_active_request_count, registered,
                reqTimer, now, loopPc, drainIdx, cursor>>

\* ------------------------------------------------------ user: the pool
\* Request objects are numbered in the order the pool constructs them;
\* NReq + 1 when the pool has constructed NReq.
NextObject == Cardinality(created) + 1

\* RequestPool::Reserve, one Request at a time: a Request built with an empty
\* url and no response wait time goes on the free-list.
Reserve(r) ==
    /\ ~crashed
    /\ r = NextObject
    /\ created' = created \cup {r}
    /\ requests' = [requests EXCEPT ![r] = Construct(0, 0, None, 1)]
    /\ m_requests' = Append(m_requests, r)
    /\ UNCHANGED <<produced, m_is_stopping, m_pending_requests, wrappers,
                   asyncSent, crashed, startPc, dtorPc, huPc, hist>>
    /\ LoopUnchanged

\* What Produce hands out besides the Request: a fresh SharedRequest held by
\* the caller's RequestHandle (RequestHandle.cpp:8-12).
Handed(q) ==
    [q EXCEPT !.refs = 1, !.userHeld = TRUE, !.loopHeld = FALSE, !.cb = 0,
              !.returns = 0, !.accepted = FALSE, !.refused = FALSE,
              !.afterStop = FALSE, !.failed = FALSE, !.setData = FALSE]

\* RequestPool::Produce(url, on_complete_handler, curl_timeout,
\* response_wait_time), free-list empty: construct a Request.
ProduceNewWith(r, url, h, ct, w) ==
    /\ m_requests = <<>>
    /\ r = NextObject
    /\ created' = created \cup {r}
    /\ requests' = [requests EXCEPT ![r] = Handed(Construct(url, ct, w, h))]
    /\ UNCHANGED m_requests

\* The loop's runs produce every request with one url, one handler and no
\* curl timeout.
ProduceNew(r, w) == ProduceNewWith(r, 1, 1, 0, w)

\* RequestPool::Produce, free-list not empty: pop the back, set the handler,
\* the url and the curl timeout (the response wait time is not set).
ProduceReuseWith(r, url, h, ct, w) ==
    /\ m_requests # <<>>
    /\ r = m_requests[Len(m_requests)]
    /\ m_requests' = SubSeq(m_requests, 1, Len(m_requests) - 1)
    /\ requests' = [requests EXCEPT ![r] = Handed(Reconfigure(@, url, ct, w, h))]
    /\ UNCHANGED created

ProduceReuse(r, w) == ProduceReuseWith(r, 1, 1, 0, w)

Produce(r, w) ==
    /\ ~crashed
    /\ produced < MaxProduce
    /\ produced' = produced + 1
    /\ (ProduceNew(r, w) \/ ProduceReuse(r, w))
    /\ hist' = [hist EXCEPT !.pushed = Without(@, r), !.done = Without(@, r)]
    /\ UNCHANGED <<m_is_stopping, m_pending_requests, wrappers, asyncSent,
                   crashed, startPc, dtorPc, huPc>>
    /\ LoopUnchanged

\* Request::AddHeader on a Request the user is still building.
AddHeader(r) ==
    /\ ~crashed
    /\ requests[r].userHeld
    /\ requests[r].status = "BUILDING"
    /\ requests[r].reqHeaders < MaxHeaders
    /\ requests' = [requests EXCEPT ![r] = AddHeaderTo(@, 1, 1)]
    /\ UNCHANGED <<created, m_requests, produced, m_is_stopping,
                   m_pending_requests, wrappers, asyncSent, crashed, startPc,
                   dtorPc, huPc, hist>>
    /\ LoopUnchanged

\* A user thread lets go of a RequestHandle it holds (~RequestHandle).
UserDrop(r) ==
    /\ ~crashed
    /\ requests[r].userHeld
    /\ startPc[r] = "none"
    /\ Install(DropRef([Heap EXCEPT !.rq[r].userHeld = FALSE], r))
    /\ UNCHANGED <<created, produced, m_is_stopping, m_pending_requests,
                   asyncSent, startPc, dtorPc, huPc, hist>>
    /\ LoopUnchanged

\* ------------------------------------------------- user: the event loop
\* EventLoop::StartRequest up to the stopping check (EventLoop.cpp:187-191).
\* The handle is moved into the call.  Stopping: return false, and the
\* parameter's destructor releases the handle.  Otherwise prepareForPerform.
StartRequestCheck(r) ==
    /\ ~crashed
    /\ dtorPc = "none"
    /\ requests[r].userHeld
    /\ requests[r].status = "BUILDING"
    /\ startPc[r] = "none"
    /\ LET H == [Heap EXCEPT !.rq[r].userHeld = FALSE,
                             !.rq[r].afterStop = hist.stopReturned]
       IN IF m_is_stopping
          THEN /\ Install(DropRef([H EXCEPT !.rq[r].refused = TRUE], r))
               /\ UNCHANGED startPc
          ELSE /\ Install([H EXCEPT !.rq[r] = prepareForPerform(@)])
               /\ startPc' = [startPc EXCEPT ![r] = "checked"]
    /\ UNCHANGED <<created, produced, m_is_stopping, m_pending_requests,
                   asyncSent, dtorPc, huPc, hist>>
    /\ LoopUnchanged

\* Variant: the push goes to the front of the queue.
emplace_front(queue, r) == <<r>> \o queue

\* m_pending_requests.emplace_back (EventLoop.cpp:194)
emplace_back(queue, r) == Append(queue, r)

\* Variant: StartRequest registers the transfer with the engine itself, on
\* the caller's thread.
StartRequestPushRegisters(r) ==
    /\ ~crashed
    /\ startPc[r] = "checked"
    /\ startPc' = [startPc EXCEPT ![r] = "none"]
    /\ registered' = registered \cup {r}
    /\ hist' = [hist EXCEPT !.pushed = Append(@, r)]
    /\ requests' = [requests EXCEPT ![r].loopHeld = TRUE, ![r].accepted = TRUE]
    /\ UNCHANGED <<created, m_requests, produced, m_is_stopping, wrappers,
                   crashed, dtorPc, huPc, m_pending_requests, asyncSent>>
    /\ UNCHANGED <<m_grabbed_requests, m_active_request_count,
                   reqTimer, now, loopPc, drainIdx, cursor>>

\* EventLoop::StartRequest from the locked push on (EventLoop.cpp:192-198):
\* emplace_back under m_pending_requests_lock, uv_async_send, return true.
StartRequestPush(r) ==
    /\ ~crashed
    /\ startPc[r] = "checked"
    /\ startPc' = [startPc EXCEPT ![r] = "none"]
    /\ m_pending_requests' = emplace_back(m_pending_requests, r)
    /\ hist' = [hist EXCEPT !.waiting = Append(@, r), !.pushed = Append(@, r)]
    /\ asyncSent' = TRUE
    /\ requests' = [requests EXCEPT ![r].loopHeld = TRUE, ![r].accepted = TRUE]
    /\ UNCHANGED <<created, m_requests, produced, m_is_stopping, wrappers,
                   crashed, dtorPc, huPc>>
    /\ LoopUnchanged

\* Variant: a Stop that returns without setting m_is_stopping.
StopLeavesFlag ==
    /\ ~crashed
    /\ dtorPc = "none"
    /\ ~hist.stopReturned
    /\ hist' = [hist EXCEPT !.stopReturned = TRUE]
    /\ UNCHANGED <<requests, created, m_requests, produced, m_is_stopping,
                   m_pending_requests, wrappers, asyncSent, crashed, startPc,
                   dtorPc, huPc>>
    /\ LoopUnchanged

\* EventLoop::Stop
Stop ==
    /\ ~crashed
    /\ dtorPc = "none"
    /\ ~hist.stopReturned
    /\ m_is_stopping' = TRUE
    /\ hist' = [hist EXCEPT !.stopReturned = TRUE]
    /\ UNCHANGED <<requests, created, m_requests, produced, m_pending_requests,
                   wrappers, asyncSent, crashed, startPc, dtorPc, huPc>>
    /\ LoopUnchanged

\* m_active_request_count is a uint64_t; the model keeps the representative
\* of its value modulo 2^64 that is nearest to 0, so "> 0" reads "# 0".
CountPositive(c) == c # 0

\* The requests in flight: admitted to the engine and not yet completed.
InFlight == registered

\* EventLoop::HasUnfinishedRequests, the counter read (EventLoop.cpp:170-173),
\* called by a user thread or by the destructor's wait loop.
HasUnfinishedCount(caller) ==
    /\ ~crashed
    /\ huPc = "idle"
    /\ \/ caller = "user" /\ dtorPc = "none"
       \/ caller = "dtor" /\ dtorPc = "waiting"
    /\ huPc' = IF CountPositive(m_active_request_count) THEN huPc ELSE caller
    /\ UNCHANGED <<hist, requests, created, m_requests, produced, m_is_stopping,
                   m_pending_requests, wrappers, asyncSent, crashed, startPc,
                   dtorPc>>
    /\ LoopUnchanged

\* EventLoop::HasUnfinishedRequests, the locked read of the pending queue
\* (EventLoop.cpp:175-176).  The destructor leaves its wait loop on false.
HasUnfinishedPending ==
    /\ ~crashed
    /\ huPc # "idle"
    /\ huPc' = "idle"
    /\ dtorPc' = IF huPc = "dtor" /\ m_pending_requests = <<>>
                 THEN "closing" ELSE dtorPc
    /\ UNCHANGED <<requests, created, m_requests, produced, m_is_stopping,
                   m_pending_requests, wrappers, asyncSent, crashed, startPc,
                   hist>>
    /\ LoopUnchanged

\* EventLoop::~EventLoop, line 134: set the stopping flag, enter the wait loop.
DtorBegin ==
    /\ ~crashed
    /\ dtorPc = "none"
    /\ huPc = "idle"
    /\ dtorPc' = "waiting"
    /\ m_is_stopping' = TRUE
    /\ UNCHANGED <<requests, created, m_requests, produced, m_pending_requests,
                   wrappers, asyncSent, crashed, startPc, huPc, hist>>
    /\ LoopUnchanged

\* EventLoop::~EventLoop, lines 140-146: stop and close the timers and the
\* async notifier, uv_stop; the reactor runs no further handler.
DtorClose ==
    /\ ~crashed
    /\ dtorPc = "closing"
    /\ dtorPc' = "closed"
    /\ reqTimer' = 0
    /\ UNCHANGED <<requests, created, m_requests, produced, m_is_stopping,
                   m_pending_requests, m_grabbed_requests,
                   m_active_request_count, wrappers, registered,
                   asyncSent, now, loopPc, drainIdx, cursor, crashed, startPc,
                   huPc, hist>>

\* ------------------------------------------------------ the loop thread
\* What user threads own stays as it is.
UserUnchanged ==
    UNCHANGED <<created, produced, m_is_stopping, startPc, dtorPc, huPc, hist>>

\* The reactor dispatches a new handler: the loop thread is between handlers
\* and uv_stop has not ended uv_run.
Dispatching == ~crashed /\ loopPc = "idle" /\ dtorPc # "closed"

\* checkActions, the body of the CURLMSG_DONE branch up to onComplete
\* (EventLoop.cpp:272-280) for the transfer of Request r.
completeTransfer(H, r, easy_result, keep, ub) ==
    onComplete([H EXCEPT !.rq[r].status = setCompletionStatus(@, easy_result, FALSE)],
               r, FALSE, None, keep, ub)

\* EventLoop::checkActions with one finished transfer r reported by
\* curl_multi_info_read: remove the handle, complete, decrement the counter.
checkActions(r, easy_result, keep, ub) ==
    LET H == completeTransfer(Heap, r, easy_result, keep, ub)
    IN /\ Install(H)
       /\ registered' = registered \ {r}
       /\ m_active_request_count' =
              IF H.dead THEN m_active_request_count
              ELSE m_active_request_count - 1

\* on_uv_curl_perform_callback / on_uv_timeout_callback -> checkActions.
CheckActions(r) ==
    /\ Dispatching
    /\ r \in registered
    /\ \E easy_result \in EngineResults, keep \in BOOLEAN, ub \in UBOutcomes :
           checkActions(r, easy_result, keep, ub)
    /\ hist' = [hist EXCEPT !.done = NoteDone(@)]
    /\ UNCHANGED <<m_pending_requests, m_grabbed_requests, asyncSent,
                   reqTimer, now, loopPc, drainIdx, cursor>>
    /\ UNCHANGED <<created, produced, m_is_stopping, startPc, dtorPc, huPc>>

\* curl_write_data during curl_multi_socket_action: appends to the response
\* body (no look at the on-complete flag).
CurlWriteData(r) ==
    /\ Dispatching
    /\ r \in registered
    /\ requests[r].respData < MaxData
    /\ requests' = [requests EXCEPT ![r] = curl_write_data(@, 1)]
    /\ UNCHANGED <<m_requests, m_pending_requests, m_grabbed_requests,
                   m_active_request_count, wrappers, registered,
                   asyncSent, reqTimer, now, loopPc, drainIdx, cursor, crashed>>
    /\ UserUnchanged

\* curl_write_header: returns 0 when the on-complete flag is set, else
\* stores the header line.
CurlWriteHeader(r) ==
    /\ Dispatching
    /\ r \in registered
    /\ ~requests[r].called
    /\ requests[r].respHeaders < MaxData
    /\ requests' = [requests EXCEPT ![r].respHeaders = @ + 1]
    /\ UNCHANGED <<m_requests, m_pending_requests, m_grabbed_requests,
                   m_active_request_count, wrappers, registered,
                   asyncSent, reqTimer, now, loopPc, drainIdx, cursor, crashed>>
    /\ UserUnchanged

\* requests_accept_async, the swap under the lock (EventLoop.cpp:423-427).
AcceptSwap ==
    /\ Dispatching
    /\ asyncSent
    /\ asyncSent' = FALSE
    /\ m_grabbed_requests' = m_pending_requests
    /\ m_pending_requests' = m_grabbed_requests
    /\ loopPc' = "drain"
    /\ drainIdx' = 1
    /\ UNCHANGED <<requests, m_requests, m_active_request_count, wrappers,
                   registered, reqTimer, now, cursor, crashed>>
    /\ UserUnchanged

\* The identity of a newly allocated set node: one that no node of the set
\* has and no Request's iterator still designates.
FreshId(H) ==
    LET used == {e.id : e \in H.ws} \cup {H.rq[r].iter : r \in Req}
        free == (1..(2 * NReq + 1)) \ used
    IN CHOOSE i \in free : \A j \in free : i <= j

\* The emplace at EventLoop.cpp:454-455 for Request r with deadline t: a
\* std::set holds one node per key, so with an entry of equal time in the
\* set nothing is inserted and the iterator designates that entry.
emplaceWrapper(H, r, t) ==
    LET same == {e \in H.ws : e.time = t}
        id == FreshId(H)
    IN IF same # {}
       THEN [H EXCEPT !.rq[r].iter = (CHOOSE e \in same : TRUE).id]
       ELSE [H EXCEPT !.ws = @ \cup {[time |-> t, id |-> id, req |-> r]},
                      !.rq[r].refs = @ + 1,
                      !.rq[r].iter = id]

\* Variant: every admitted deadline restarts the timer.
restartTimerAlways(ws, t, timer) == t

\* The test before the emplace (EventLoop.cpp:441-451): the timer is stopped
\* and started for deadline t when the set is empty or t is earlier than the
\* least deadline in it; otherwise it stays as it is (timer: its expiry,
\* 0 = not armed).
restartTimer(ws, t, timer) ==
    IF ws = {} \/ t < Begin(ws).time THEN t ELSE timer

\* requests_accept_async, one iteration of the loop over the grabbed requests
\* (EventLoop.cpp:430-484).  ok: curl_multi_add_handle succeeded.  done: the
\* transfer the nested checkActions finds finished (0 = none).
AcceptOne ==
    /\ ~crashed
    /\ loopPc = "drain"
    /\ drainIdx <= Len(m_grabbed_requests)
    /\ LET r == m_grabbed_requests[drainIdx]
           timed == requests[r].wait # None
           t == now + requests[r].wait
           H0 == IF timed THEN emplaceWrapper(Heap, r, t) ELSE Heap
       IN /\ reqTimer' = IF timed THEN restartTimer(wrappers, t, reqTimer)
                         ELSE reqTimer
          /\ \E ok \in BOOLEAN, keep \in BOOLEAN, ub \in UBOutcomes :
               IF ~ok
               THEN /\ Install(onComplete(
                          [H0 EXCEPT !.rq[r].status =
                               setCompletionStatus(@, "CURLE_SEND_ERROR", FALSE),
                                     !.rq[r].failed = TRUE],
                          r, FALSE, None, keep, ub))
                    /\ UNCHANGED <<registered, m_active_request_count>>
               ELSE \E done \in {0} \cup registered \cup {r} :
                      IF done = 0
                      THEN /\ Install(H0)
                           /\ registered' = registered \cup {r}
                           /\ UNCHANGED m_active_request_count
                      ELSE \E easy_result \in EngineResults :
                             LET H == completeTransfer(H0, done, easy_result, keep, ub)
                             IN /\ Install(H)
                                /\ registered' = (registered \cup {r}) \ {done}
                                /\ m_active_request_count' =
                                       IF H.dead THEN m_active_request_count
                                       ELSE m_active_request_count - 1
    /\ drainIdx' = drainIdx + 1
    /\ hist' = [hist EXCEPT
                   !.waiting = Without(@, m_grabbed_requests[drainIdx]),
                   !.done = NoteDone(@)]
    /\ UNCHANGED <<m_pending_requests, m_grabbed_requests, asyncSent, now,
                   loopPc, cursor>>
    /\ UNCHANGED <<created, produced, m_is_stopping, startPc, dtorPc, huPc>>

\* requests_accept_async, the tail (EventLoop.cpp:487-495): count the grabbed
\* requests, clear the vector, wake again if the pending queue is not empty.
AcceptEnd ==
    /\ ~crashed
    /\ loopPc = "drain"
    /\ drainIdx > Len(m_grabbed_requests)
    /\ m_active_request_count' = m_active_request_count + Len(m_grabbed_requests)
    /\ m_grabbed_requests' = <<>>
    /\ asyncSent' = (asyncSent \/ m_pending_requests # <<>>)
    /\ loopPc' = "idle"
    /\ drainIdx' = 0
    /\ UNCHANGED <<requests, m_requests, m_pending_requests, wrappers,
                   registered, reqTimer, now, cursor, crashed>>
    /\ UserUnchanged

\* times_up -> StopTimedOutRequests, up to the loop's initialisation
\* (EventLoop.cpp:203-214).  The timer is one-shot.
TimesUp ==
    /\ Dispatching
    /\ reqTimer # 0
    /\ reqTimer <= now
    /\ reqTimer' = 0
    /\ IF wrappers = {}
       THEN UNCHANGED <<loopPc, cursor>>
       ELSE /\ loopPc' = "walk"
            /\ cursor' = Begin(wrappers).id
    /\ UNCHANGED <<requests, m_requests, m_pending_requests, m_grabbed_requests,
                   m_active_request_count, wrappers, registered,
                   asyncSent, now, drainIdx, crashed>>
    /\ UserUnchanged

\* The loop condition at EventLoop.cpp:215 for current_wrapper = cursor.  At
\* end() the first conjunct reads the set's header node; whatever it reads,
\* the second conjunct ends the loop.
WalkContinues ==
    /\ cursor # 0
    /\ \E e \in NodeOf(wrappers, cursor) : e.time <= now

\* StopTimedOutRequests, one iteration (EventLoop.cpp:217-220): clear the
\* Request's wait time, onComplete with the loop time as finish time, then
\* read and erase current_wrapper.  onComplete has erased that node through
\* the Request's iterator when the iterator designated it; the erase at line
\* 220 is then undefined (outcome ub2: abort, or the loop goes on from some
\* node or from end()).
WalkStep ==
    /\ ~crashed
    /\ loopPc = "walk"
    /\ WalkContinues
    /\ LET e == CHOOSE x \in NodeOf(wrappers, cursor) : TRUE
           r == e.req
       IN \E keep \in BOOLEAN, ub \in UBOutcomes, ub2 \in UBOutcomes :
            LET H == onComplete([Heap EXCEPT !.rq[r].wait = None],
                                r, TRUE, now, keep, ub)
            IN IF H.dead
               THEN Install(H) /\ UNCHANGED cursor
               ELSE IF e \in H.ws
               THEN /\ Install(DropRef([H EXCEPT !.ws = @ \ {e}], r))
                    /\ cursor' = NextAfter(H.ws, e)
               ELSE IF ub2 = "crash"
               THEN Install([H EXCEPT !.dead = TRUE]) /\ UNCHANGED cursor
               ELSE /\ Install(H)
                    /\ cursor' \in {0} \cup {x.id : x \in H.ws}
    /\ UNCHANGED <<m_pending_requests, m_grabbed_requests,
                   m_active_request_count, registered, asyncSent,
                   reqTimer, now, loopPc, drainIdx>>
    /\ UserUnchanged

\* StopTimedOutRequests after the loop (EventLoop.cpp:223-233): restart the
\* timer for the earliest remaining deadline.
WalkEnd ==
    /\ ~crashed
    /\ loopPc = "walk"
    /\ ~WalkContinues
    /\ reqTimer' = IF wrappers # {} THEN Begin(wrappers).time ELSE reqTimer
    /\ loopPc' = "idle"
    /\ cursor' = 0
    /\ UNCHANGED <<requests, m_requests, m_pending_requests, m_grabbed_requests,
                   m_active_request_count, wrappers, registered,
                   asyncSent, now, drainIdx, crashed>>
    /\ UserUnchanged

\* The loop clock advances between handlers (uv_update_time).
Tick ==
    /\ ~crashed
    /\ loopPc = "idle"
    /\ now < ClockStart + MaxTime
    /\ now' = now + 1
    /\ UNCHANGED <<requests, m_requests, m_pending_requests, m_grabbed_requests,
                   m_active_request_count, wrappers, registered,
                   asyncSent, reqTimer, loopPc, drainIdx, cursor, crashed>>
    /\ UserUnchanged

\* ------------------------------------------------------------ the system
Next ==
    \/ \E r \in Req : Reserve(r)
    \/ \E r \in Req, w \in WaitTimes : Produce(r, w)
    \/ \E r \in Req : AddHeader(r)
    \/ \E r \in Req : UserDrop(r)
    \/ \E r \in Req : StartRequestCheck(r)
    \/ \E r \in Req : StartRequestPush(r)
    \/ Stop
    \/ \E caller \in {"user", "dtor"} : HasUnfinishedCount(caller)
    \/ HasUnfinishedPending
    \/ DtorBegin
    \/ DtorClose
    \/ \E r \in Req : CheckActions(r)
    \/ \E r \in Req : CurlWriteData(r)
    \/ \E r \in Req : CurlWriteHeader(r)
    \/ AcceptSwap
    \/ AcceptOne
    \/ AcceptEnd
    \/ TimesUp
    \/ WalkStep
    \/ WalkEnd
    \/ Tick

Spec == Init /\ [][Next]_vars

\* ------------------------------------------- the Request API, synchronous
\* A user thread works on the Requests it holds without an event loop:
\* Produce with any arguments, the body setters, the download cap, and the
\* blocking Perform (prepareForPerform, the engine's write callbacks, then
\* setCompletionStatus).  hist keeps the last call: op, the Request obj, the
\* arguments (and what the call found) in arg, and whether it threw.

\* Nothing of the event loop changes.
NoLoop ==
    /\ UNCHANGED <<m_is_stopping, m_pending_requests, asyncSent, startPc,
                   dtorPc, huPc>>
    /\ LoopUnchanged

\* The last call on a Request.
Called(op, r, arg, threw) ==
    hist' = [hist EXCEPT !.op = op, !.obj = r, !.arg = arg, !.threw = threw]

\* RequestPool::Produce(url, on_complete_handler, curl_timeout,
\* response_wait_time); the thread works on one Request at a time.
ProduceWith(r, url, h, ct, w) ==
    /\ produced < MaxProduce
    /\ \A x \in Req : ~requests[x].userHeld
    /\ produced' = produced + 1
    /\ (ProduceNewWith(r, url, h, ct, w) \/ ProduceReuseWith(r, url, h, ct, w))
    /\ Called("Produce", r, <<url, h, ct, w>>, FALSE)
    /\ UNCHANGED <<wrappers, crashed>>
    /\ NoLoop

\* ~RequestHandle on a handle that is not inside Perform.
HandleDrop(r) ==
    /\ requests[r].userHeld
    /\ requests[r].status # "EXECUTING"
    /\ Install(DropRef([Heap EXCEPT !.rq[r].userHeld = FALSE], r))
    /\ Called("Drop", r, <<>>, FALSE)
    /\ UNCHANGED <<created, produced>>
    /\ NoLoop

\* Request::SetRequestData, the test that throws std::logic_error.
SetRequestDataThrows(q) == q.mime # 0

\* Variant: AddMimeField only tests that the file exists.
AddMimeFieldIgnoresData(q, isFile, exists) == isFile /\ ~exists

\* Request::AddMimeField, the tests that throw: std::logic_error when raw data
\* is stored, then (file overload) std::runtime_error when the file is missing.
AddMimeFieldThrows(q, isFile, exists) == q.data # 0 \/ (isFile /\ ~exists)

\* Request::SetRequestData with data of d bytes: throws when a mime handle
\* exists; returns at once on empty data; otherwise stores the data.
SetRequestData(r, d) ==
    /\ requests[r].userHeld
    /\ requests[r].status = "BUILDING"
    /\ LET q == requests[r]
       IN IF SetRequestDataThrows(q)
          THEN /\ Called("SetRequestData", r, <<d, q.data, q.mime>>, TRUE)
               /\ UNCHANGED requests
          ELSE /\ Called("SetRequestData", r, <<d, q.data, q.mime>>, FALSE)
               /\ requests' = [requests EXCEPT
                      ![r] = [q EXCEPT !.data = IF d = 0 THEN @ ELSE d,
                                       !.setData = TRUE]]
    /\ UNCHANGED <<created, m_requests, produced, wrappers, crashed>>
    /\ NoLoop

\* Request::AddMimeField, both overloads: throws when raw data is stored; the
\* file overload throws when the file does not exist; otherwise the mime
\* handle is created if need be and gets one more part.
AddMimeField(r, isFile, exists) ==
    /\ requests[r].userHeld
    /\ requests[r].status = "BUILDING"
    /\ requests[r].mime < MaxBody
    /\ LET q == requests[r]
       IN IF AddMimeFieldThrows(q, isFile, exists)
          THEN /\ Called("AddMimeField", r, <<isFile, q.data, q.mime>>, TRUE)
               /\ UNCHANGED requests
          ELSE /\ Called("AddMimeField", r, <<isFile, q.data, q.mime>>, FALSE)
               /\ requests' = [requests EXCEPT ![r].mime = @ + 1]
    /\ UNCHANGED <<created, m_requests, produced, wrappers, crashed>>
    /\ NoLoop

\* Request::SetMaxDownloadBytes(c) between transfers.
MaxDownloadBytes(r, c) ==
    /\ requests[r].userHeld
    /\ requests[r].status # "EXECUTING"
    /\ requests[r].maxBytes # c
    /\ requests' = [requests EXCEPT ![r] = SetMaxDownloadBytes(@, c)]
    /\ Called("SetMaxDownloadBytes", r, <<c>>, FALSE)
    /\ UNCHANGED <<created, m_requests, produced, wrappers, crashed>>
    /\ NoLoop

\* Request::Perform, first line: prepareForPerform.  m_bytes_written only
\* grows from one Perform to the next; the runs stop performing a Request
\* whose counter has passed MaxCap.
PerformBegin(r) ==
    /\ requests[r].userHeld
    /\ requests[r].status # "EXECUTING"
    /\ requests[r].bytesWritten <= MaxCap
    /\ requests' = [requests EXCEPT ![r] = prepareForPerform(@)]
    /\ Called("PerformBegin", r, <<>>, FALSE)
    /\ UNCHANGED <<created, m_requests, produced, wrappers, crashed>>
    /\ NoLoop

\* Inside curl_easy_perform: the engine hands curl_write_data the next chunk
\* of the resource.  The body so far is what the engine delivered.  When the
\* callback returns another length than the chunk's, the engine aborts the
\* transfer with CURLE_WRITE_ERROR and Perform goes on to setCompletionStatus.
PerformWrite(r, chunk) ==
    /\ requests[r].userHeld
    /\ requests[r].status = "EXECUTING"
    /\ requests[r].respData + chunk <= MaxResource
    /\ LET q == requests[r]
           q1 == curl_write_data(q, chunk)
       IN IF writtenLength(q, chunk) = chunk
          THEN /\ requests' = [requests EXCEPT ![r] = q1]
               /\ Called("Write", r, <<chunk, q.maxBytes>>, FALSE)
          ELSE /\ requests' = [requests EXCEPT ![r] =
                      [q1 EXCEPT !.status = setCompletionStatus(
                           @, "CURLE_WRITE_ERROR",
                           getRemainingDownloadBytes(q1) = 0)]]
               /\ Called("WriteAbort", r, <<chunk, q.maxBytes>>, FALSE)
    /\ UNCHANGED <<created, m_requests, produced, wrappers, crashed>>
    /\ NoLoop

\* curl_easy_perform returns curl_code of its own accord; setCompletionStatus.
PerformEnd(r, curl_code) ==
    /\ requests[r].userHeld
    /\ requests[r].status = "EXECUTING"
    /\ requests' = [requests EXCEPT ![r].status =
           setCompletionStatus(@, curl_code,
                               getRemainingDownloadBytes(requests[r]) = 0)]
    /\ Called("PerformEnd", r, <<curl_code, requests[r].maxBytes>>, FALSE)
    /\ UNCHANGED <<created, m_requests, produced, wrappers, crashed>>
    /\ NoLoop

ReqNext ==
    \/ \E r \in Req : Reserve(r)
    \/ \E r \in Req, url \in Urls, h \in Handlers, ct \in CurlTimeouts,
          w \in WaitTimes : ProduceWith(r, url, h, ct, w)
    \/ \E r \in Req : HandleDrop(r)
    \/ \E r \in Req, d \in 0..MaxBody : SetRequestData(r, d)
    \/ \E r \in Req, isFile \in BOOLEAN, exists \in BOOLEAN :
          AddMimeField(r, isFile, exists)
    \/ \E r \in Req, c \in -1..MaxCap : MaxDownloadBytes(r, c)
    \/ \E r \in Req : PerformBegin(r)
    \/ \E r \in Req, chunk \in 1..MaxChunk : PerformWrite(r, chunk)
    \/ \E r \in Req, curl_code \in PerformResults : PerformEnd(r, curl_code)

ReqSpec == Init /\ [][ReqNext]_vars

\* ------------------------------------------- the pool shared by threads
\* NThreads user threads produce and drop handles on one pool; no request is
\* submitted.  The free-list is only touched under m_mutex, so each Produce
\* and each return is one step.

\* The handles thread t holds, given who holds what.
HeldBy(holder, t) == {r \in Req : holder[r] = t}

\* Every Reserve in these runs is one call for one Request.
PoolReserve(r) ==
    /\ ~crashed
    /\ r = NextObject
    /\ created' = created \cup {r}
    /\ requests' = [requests EXCEPT ![r] = Construct(0, 0, None, 1)]
    /\ m_requests' = Append(m_requests, r)
    /\ hist' = [hist EXCEPT !.reserved = @ + 1]
    /\ UNCHANGED <<produced, wrappers, crashed>>
    /\ NoLoop

\* RequestPool::Produce called by thread t.
PoolProduce(t, r, url, h, ct, w) ==
    /\ produced < MaxProduce
    /\ produced' = produced + 1
    /\ (ProduceNewWith(r, url, h, ct, w) \/ ProduceReuseWith(r, url, h, ct, w))
    /\ LET holder == [hist.holder EXCEPT ![r] = t]
           held == Cardinality(HeldBy(holder, t))
       IN hist' = [hist EXCEPT
              !.holder = holder,
              !.peak[t] = IF held > @ THEN held ELSE @]
    /\ UNCHANGED <<wrappers, crashed>>
    /\ NoLoop

\* ~RequestHandle on thread t for a handle it holds: the last reference goes,
\* ~SharedRequest returns the Request.
PoolDrop(t, r) ==
    /\ hist.holder[r] = t
    /\ requests[r].userHeld
    /\ Install(DropRef([Heap EXCEPT !.rq[r].userHeld = FALSE], r))
    /\ hist' = [hist EXCEPT !.holder[r] = 0]
    /\ UNCHANGED <<created, produced>>
    /\ NoLoop

PoolNext ==
    \/ \E r \in Req : PoolReserve(r)
    \/ \E t \in Threads, r \in Req, url \in Urls, h \in Handlers,
          ct \in CurlTimeouts, w \in WaitTimes : PoolProduce(t, r, url, h, ct, w)
    \/ \E t \in Threads, r \in Req : PoolDrop(t, r)

PoolSpec == Init /\ [][PoolNext]_vars

\* ------------------------------------------------- the request headers
\* One thread builds Requests: Produce, AddHeader with any name and value,
\* and the handle's release.  hist keeps the AddHeader calls made on the
\* Request in hand since its Produce (arg, in call order).

HdrProduce(r) ==
    /\ produced < MaxProduce
    /\ \A x \in Req : ~requests[x].userHeld
    /\ produced' = produced + 1
    /\ (ProduceNewWith(r, 1, 1, 0, None) \/ ProduceReuseWith(r, 1, 1, 0, None))
    /\ Called("Produce", r, <<>>, FALSE)
    /\ UNCHANGED <<wrappers, crashed>>
    /\ NoLoop

HdrAddHeader(r, name, value) ==
    /\ requests[r].userHeld
    /\ requests[r].status = "BUILDING"
    /\ Len(requests[r].hdrIdx) < MaxHeaderCalls
    /\ requests' = [requests EXCEPT ![r] = AddHeaderTo(@, name, value)]
    /\ Called("AddHeader", r, Append(hist.arg, <<name, value>>), FALSE)
    /\ UNCHANGED <<created, m_requests, produced, wrappers, crashed>>
    /\ NoLoop

HdrDrop(r) ==
    /\ requests[r].userHeld
    /\ Install(DropRef([Heap EXCEPT !.rq[r].userHeld = FALSE], r))
    /\ Called("Drop", r, <<>>, FALSE)
    /\ UNCHANGED <<created, produced>>
    /\ NoLoop

HdrNext ==
    \/ \E r \in Req : HdrProduce(r)
    \/ \E r \in Req, name \in HeaderNames, value \in HeaderValues :
          HdrAddHeader(r, name, value)
    \/ \E r \in Req : HdrDrop(r)

HdrSpec == Init /\ [][HdrNext]_vars

\* ------------------------------------- setCompletionStatus as a function
\* Any status, any result code, the cap reached or not: hist.arg holds the
\* inputs, and after the call the status it leaves as well.
MapInit ==
    /\ InitState
    /\ \E old \in RequestStatuses, curl_code \in CurlCodes, capHit \in BOOLEAN :
           hist = [InitHist EXCEPT !.op = "input",
                                   !.arg = <<old, curl_code, capHit>>]

\* Request::setCompletionStatus(curl_code) on a Request in status old.
SetCompletionStatus ==
    /\ hist.op = "input"
    /\ hist' = [hist EXCEPT
           !.op = "setCompletionStatus",
           !.arg = Append(@, setCompletionStatus(@[1], @[2], @[3]))]
    /\ UNCHANGED <<requests, created, m_requests, produced, wrappers, crashed>>
    /\ NoLoop

MapNext == SetCompletionStatus

MapSpec == MapInit /\ [][MapNext]_vars

\* ------------------------------------------------------------ properties
\* Request r is on the pool's free-list.
InPool(r) == \E i \in 1..Len(m_requests) : m_requests[i] = r

\* The deadline-set entries that hold Request r.
Entries(r) == {e \in wrappers : e.req = r}

\* The shared_ptr<SharedRequest> copies that exist for Request r: the user's
\* handle, the loop's (the StartRequest parameter, the queue, the engine),
\* one per deadline entry.
Holders(r) ==
    (IF requests[r].userHeld THEN 1 ELSE 0)
    + (IF requests[r].loopHeld \/ startPc[r] = "checked" THEN 1 ELSE 0)
    + Cardinality(Entries(r))

\* Request r is in the pending queue or waits in the vector being drained
\* (the slots before drainIdx have been handled).
Queued(r) ==
    \/ \E i \in 1..Len(m_pending_requests) : m_pending_requests[i] = r
    \/ \E i \in 1..Len(m_grabbed_requests) :
           i >= drainIdx /\ m_grabbed_requests[i] = r

\* C1: the completion callback of a request runs at most once for one
\* submission, whichever of the engine's completion, the failed
\* registration and the response-wait walk reach it, and in whatever order.
Inv_C1_CallbackAtMostOnce ==
    \A r \in Req : requests[r].cb <= 1

\* A request that timed out (callback run by the walk) and whose engine
\* completion was dispatched afterwards, the process still running.
Wit_C1_SecondEntry ==
    \E r \in Req :
        /\ ~crashed
        /\ requests[r].accepted
        /\ requests[r].status = "RESPONSE_WAIT_TIME_TIMEOUT"
        /\ requests[r].cb = 1
        /\ ~requests[r].loopHeld
        /\ r \notin registered

\* C2: every request StartRequest accepted has its callback run exactly
\* once.  Stated for the runs that have ended (the process aborted, or the
\* destructor closed the loop so that no handler runs again): no accepted
\* request is then left without its callback.
Cex_C2_AcceptedGetsCallback ==
    (crashed \/ dtorPc = "closed") =>
        \A r \in Req : requests[r].accepted => requests[r].cb = 1

\* C3: the engine's completion of a request whose response wait time
\* already expired is a no-op: the process goes on, no callback, and the
\* deadline set is what it was.
Cex_C3_LateCompletionNoOp ==
    [][\A r \in Req :
          (/\ r \in registered
           /\ r \notin registered'
           /\ requests[r].called
           /\ requests[r].status = "RESPONSE_WAIT_TIME_TIMEOUT")
          => (/\ ~crashed'
              /\ wrappers' = wrappers
              /\ requests'[r].cb = requests[r].cb
              /\ requests'[r].total = requests[r].total)]_vars

\* C4: while the engine has a request's transfer registered, the Request is
\* neither reset nor on the free-list.
Inv_C4_RegisteredNotPooled ==
    \A r \in registered :
        /\ ~InPool(r)
        /\ requests[r].returns = 0
        /\ requests[r].status # "BUILDING"
        /\ requests[r].refs >= 1

\* The engine's registration is all that keeps a Request alive: its callback
\* has run, the user's handle and the deadline entry are gone.
Wit_C4_OnlyEngineHolds ==
    \E r \in registered :
        /\ ~crashed
        /\ requests[r].called
        /\ requests[r].refs = 1
        /\ Entries(r) = {}

\* C5: a Request on the free-list is referenced by no deadline-set entry and
\* held by nobody (the handle a running handler received is a user's handle
\* for as long as the handler keeps it): it got there only when the last
\* holder let go.
Inv_C5_PooledIsUnreferenced ==
    \A r \in Req :
        InPool(r) =>
            /\ Entries(r) = {}
            /\ ~requests[r].userHeld
            /\ ~requests[r].loopHeld
            /\ startPc[r] # "checked"
            /\ requests[r].refs = 0

\* A Request that had a deadline entry, timed out, and is back in the pool.
Wit_C5_TimedOutThenPooled ==
    \E r \in Req :
        /\ InPool(r)
        /\ requests[r].accepted
        /\ requests[r].cb = 1
        /\ requests[r].total \notin {None, EngineTime}

\* C6: a Request goes back to the pool exactly once per Produce, when its
\* last handle goes away: it is on the free-list at most once, and, in a
\* process that has not aborted, the use count is the number of holders and
\* the Request is on the free-list exactly when the count is 0.
Inv_C6_ReturnedOncePerProduce ==
    \A r \in created :
        /\ requests[r].returns <= 1
        /\ requests[r].returns = 1 => InPool(r)
        /\ Cardinality({i \in 1..Len(m_requests) : m_requests[i] = r}) <= 1
        /\ ~crashed =>
               /\ requests[r].refs = Holders(r)
               /\ InPool(r) <=> requests[r].refs = 0

\* A Request completed by the engine and, its last handle gone, back in the
\* pool.
Wit_C6_ReturnedAfterCompletion ==
    \E r \in Req :
        /\ InPool(r)
        /\ requests[r].returns = 1
        /\ requests[r].cb = 1
        /\ requests[r].total = EngineTime

\* C7: every Request on the free-list is in status BUILDING, with no
\* response headers, no response body and no request headers.
Inv_C7_PooledIsClean ==
    \A i \in 1..Len(m_requests) :
        LET q == requests[m_requests[i]]
        IN /\ q.status = "BUILDING"
           /\ q.respHeaders = 0
           /\ q.respData = 0
           /\ q.reqHeaders = 0

\* Two used Requests side by side on the free-list.
Wit_C7_UsedAndPooled ==
    /\ Len(m_requests) = NReq
    /\ \A r \in Req : requests[r].returns = 1 /\ requests[r].cb = 1

\* C8: a StartRequest called after Stop() has returned returns false, puts
\* nothing on the queue, and the request's callback is not invoked.
Inv_C8_RefusedAfterStop ==
    \A r \in Req :
        requests[r].afterStop =>
            /\ requests[r].refused
            /\ ~requests[r].accepted
            /\ requests[r].cb = 0
            /\ ~Queued(r)
            /\ startPc[r] = "none"

\* A StartRequest after Stop() that was refused while the loop still had an
\* earlier request in flight.
Wit_C8_RefusedWhileBusy ==
    \E r \in Req :
        /\ requests[r].afterStop
        /\ requests[r].refused
        /\ registered # {}

\* C9: the destructor does not go on to close the reactor's handles while a
\* request StartRequest accepted has not been dispatched to its callback.
Cex_C9_CloseWaitsForAccepted ==
    dtorPc \in {"closing", "closed"} =>
        \A r \in Req : requests[r].accepted => requests[r].cb >= 1

\* C10: HasUnfinishedRequests returns true exactly when a request is in
\* flight or the pending queue is not empty.  A call at the counter read
\* returns true when the counter is positive; a call past it returns
\* whether the pending queue is non-empty.
Cex_C10_HasUnfinishedExact ==
    LET truth == (InFlight # {}) \/ (m_pending_requests # <<>>)
    IN /\ (huPc = "idle" /\ CountPositive(m_active_request_count)) => truth
       /\ huPc # "idle" => ((m_pending_requests # <<>>) <=> truth)


\* C11: the Request Produce(url, on_complete_handler, curl_timeout,
\* response_wait_time) returns has that url, that handler, that curl timeout
\* and that response wait time, whether it was constructed or taken from the
\* free-list.
Cex_C11_ProduceSetsArguments ==
    hist.op = "Produce" =>
        LET q == requests[hist.obj]
        IN /\ q.url = hist.arg[1]
           /\ q.handler = hist.arg[2]
           /\ q.curlTimeout = hist.arg[3]
           /\ q.wait = hist.arg[4]

\* C12: a Request handed out by Produce on a pool slot that went through a
\* produce / submit / complete / return cycle starts in the state of a newly
\* constructed one: status BUILDING, no headers, no body, empty response
\* buffers, download counters at their defaults, on-complete flag clear, no
\* deadline iterator, no total time.  (A held Request in status BUILDING has
\* not been submitted since its Produce.)
Cex_C12_ReuseSameInitialState ==
    \A r \in Req :
        (requests[r].userHeld /\ requests[r].status = "BUILDING") =>
            LET q == requests[r]
                fresh == Construct(q.url, q.curlTimeout, q.wait, q.handler)
            IN /\ q.respHeaders = fresh.respHeaders
               /\ q.respData = fresh.respData
               /\ q.data = fresh.data
               /\ q.mime = fresh.mime
               /\ q.maxBytes = fresh.maxBytes
               /\ q.bytesWritten = fresh.bytesWritten
               /\ q.called = fresh.called
               /\ q.iter = fresh.iter
               /\ q.total = fresh.total

Cex_C14_CounterIsBodyLength ==
    hist.op \in {"Write", "WriteAbort"} =>
        LET q == requests[hist.obj]
        IN q.maxBytes >= 0 =>
               /\ 0 <= q.bytesWritten
               /\ q.bytesWritten <= q.maxBytes
               /\ q.respData = q.bytesWritten

\* C15: with a download cap c >= 0 and a resource larger than c, the write
\* callback cuts the chunk that crosses the cap and the engine aborts; the
\* request completes with status SUCCESS and a body of exactly c bytes.  A
\* write error while the cap is not reached gives DOWNLOAD_ERROR.
Cex_C15_CapAbortIsSuccess ==
    LET q == requests[hist.obj]
    IN /\ hist.op = "WriteAbort" =>
              (q.status = "SUCCESS" /\ q.respData = q.maxBytes)
       /\ (/\ hist.op = "PerformEnd"
           /\ hist.arg[1] = "CURLE_WRITE_ERROR"
           /\ getRemainingDownloadBytes(q) # 0) => q.status = "DOWNLOAD_ERROR"

\* C16: the status setCompletionStatus leaves is the mapping of the engine's
\* result code: OK to SUCCESS, GOT_NOTHING to RESPONSE_EMPTY, OPERATION_TIMEDOUT
\* to TIMEOUT, COULDNT_CONNECT to CONNECT_ERROR, COULDNT_RESOLVE_HOST to
\* CONNECT_DNS_ERROR, SSL_CONNECT_ERROR to CONNECT_SSL_ERROR, SEND_ERROR to
\* ERROR_FAILED_TO_START, WRITE_ERROR to SUCCESS when the download cap is
\* exactly used up and to DOWNLOAD_ERROR otherwise, any other code to ERROR;
\* a status RESPONSE_WAIT_TIME_TIMEOUT is never overwritten.
Inv_C16_StatusMapping ==
    hist.op = "setCompletionStatus" =>
        LET old == hist.arg[1]
            code == hist.arg[2]
            capHit == hist.arg[3]
            new == hist.arg[4]
        IN IF old = "RESPONSE_WAIT_TIME_TIMEOUT"
           THEN new = "RESPONSE_WAIT_TIME_TIMEOUT"
           ELSE /\ code = "CURLE_OK" => new = "SUCCESS"
                /\ code = "CURLE_GOT_NOTHING" => new = "RESPONSE_EMPTY"
                /\ code = "CURLE_OPERATION_TIMEDOUT" => new = "TIMEOUT"
                /\ code = "CURLE_COULDNT_CONNECT" => new = "CONNECT_ERROR"
                /\ code = "CURLE_COULDNT_RESOLVE_HOST" => new = "CONNECT_DNS_ERROR"
                /\ code = "CURLE_SSL_CONNECT_ERROR" => new = "CONNECT_SSL_ERROR"
                /\ code = "CURLE_SEND_ERROR" => new = "ERROR_FAILED_TO_START"
                /\ (code = "CURLE_WRITE_ERROR" /\ capHit) => new = "SUCCESS"
                /\ (code = "CURLE_WRITE_ERROR" /\ ~capHit) => new = "DOWNLOAD_ERROR"
                /\ code = "CURLE_OTHER" => new = "ERROR"

\* The engine reported success for a request whose response wait time had
\* expired, and the status stayed RESPONSE_WAIT_TIME_TIMEOUT.
Wit_C16_TimeoutKept ==
    /\ hist.op = "setCompletionStatus"
    /\ hist.arg[1] = "RESPONSE_WAIT_TIME_TIMEOUT"
    /\ hist.arg[2] = "CURLE_OK"
    /\ hist.arg[4] = "RESPONSE_WAIT_TIME_TIMEOUT"

\* C16 as stated: every code outside the seven named ones, CURLE_WRITE_ERROR
\* included, maps to ERROR.
Cex_C16_OthersAreError ==
    (hist.op = "setCompletionStatus" /\ hist.arg[1] # "RESPONSE_WAIT_TIME_TIMEOUT"
        /\ hist.arg[2] \in {"CURLE_WRITE_ERROR", "CURLE_OTHER"})
    => hist.arg[4] = "ERROR"

\* C17: a request admitted at loop time t whose response wait time w expired
\* gets status RESPONSE_WAIT_TIME_TIMEOUT and total_time = f - t, f >= t + w
\* being the loop time the timer handled its deadline at; a request completed
\* on the transport path has the engine's total time.  The loop's clock
\* started at ClockStart, so t >= ClockStart and f <= now: the total time of
\* a timed-out request is at most now - ClockStart.
Cex_C17_TotalTimeSinceStart ==
    \A r \in Req :
        requests[r].cb = 1 =>
            IF requests[r].status = "RESPONSE_WAIT_TIME_TIMEOUT"
            THEN /\ requests[r].total >= 1
                 /\ requests[r].total <= now - ClockStart
            ELSE requests[r].total = EngineTime

\* C18: a request the engine refused to register during a drain is completed
\* on the spot: its callback has run exactly once, with status
\* ERROR_FAILED_TO_START (the status it keeps until it is back in the pool);
\* it is not registered and no deadline entry is left for it; the step that
\* handled it did not abort the process, and the drain stands at the next
\* grabbed request.
Inv_C18_FailedStartCompletes ==
    \A r \in Req :
        requests[r].failed =>
            /\ requests[r].cb = 1
            /\ r \notin registered
            /\ Entries(r) = {}
            /\ InPool(r) \/ requests[r].status = "ERROR_FAILED_TO_START"
            /\ (/\ loopPc = "drain"
                /\ drainIdx > 1
                /\ m_grabbed_requests[drainIdx - 1] = r) => ~crashed

\* Of two requests grabbed by one drain the first, which has a response wait
\* time, was refused by the engine and got its callback; the second was then
\* registered.
Wit_C18_NextOneRegistered ==
    \E r \in Req, x \in Req :
        /\ r # x
        /\ requests[r].failed
        /\ requests[r].cb = 1
        /\ requests[r].wait # None
        /\ requests[r].status = "ERROR_FAILED_TO_START"
        /\ m_grabbed_requests = <<r, x>>
        /\ drainIdx = 3
        /\ x \in registered
        /\ ~crashed

\* C19: requests are registered with the engine in the order they were pushed
\* on the pending queue.  A drain handles the grabbed requests by increasing
\* index from drainIdx on, and the next drain grabs the pending queue: the
\* requests still to be handled, in the order they will be handled, are the
\* pushed and not yet handled requests in push order.
Inv_C19_HandledInPushOrder ==
    hist.waiting =
        (IF loopPc = "drain"
         THEN SubSeq(m_grabbed_requests, drainIdx, Len(m_grabbed_requests))
         ELSE <<>>) \o m_pending_requests

\* Two requests pushed one after the other were grabbed by one drain; the
\* first pushed is registered, the second is the next to be handled.
Wit_C19_FirstPushedRegistered ==
    \E a \in Req, b \in Req :
        /\ a # b
        /\ loopPc = "drain"
        /\ m_grabbed_requests = <<a, b>>
        /\ drainIdx = 2
        /\ hist.waiting = <<b>>
        /\ a \in registered
        /\ b \notin registered

\* C20: of two requests pushed one strictly before the other that both
\* complete on the transport path, the callback of the one pushed first
\* begins first.
Cex_C20_CallbacksInPushOrder ==
    \A i \in 1..Len(hist.pushed), j \in 1..Len(hist.pushed) :
        \A k \in 1..Len(hist.done), l \in 1..Len(hist.done) :
            (/\ i < j
             /\ hist.done[k] = hist.pushed[i]
             /\ hist.done[l] = hist.pushed[j]) => k < l

\* C21: the engine is called (a transfer registered or unregistered) and
\* completion callbacks are invoked only by the handlers of the loop thread,
\* one callback at a time: a step that changes the set of registered
\* transfers or invokes a callback is no step of a user thread (no
\* StartRequest, HasUnfinishedRequests, destructor, Stop or Produce call
\* moves, the pending queue is not pushed to), and it invokes at most one
\* callback.
Inv_C21_EngineOnLoopThread ==
    [][(\/ registered' # registered
        \/ \E r \in Req : requests'[r].cb > requests[r].cb)
       => /\ UNCHANGED <<startPc, dtorPc, huPc, produced, created,
                         m_is_stopping, m_pending_requests>>
          /\ hist'.stopReturned = hist.stopReturned
          /\ loopPc \in {"idle", "drain", "walk"}
          /\ Cardinality({r \in Req : requests'[r].cb > requests[r].cb}) <= 1]_vars

\* A callback has run inside a drain while a user thread is inside
\* StartRequest for another request.
Wit_C21_CallbackDuringUserCall ==
    \E r \in Req, x \in Req :
        /\ loopPc = "drain"
        /\ requests[r].cb = 1
        /\ r \notin registered
        /\ startPc[x] = "checked"

\* The sum of peak over the threads 1..n.
RECURSIVE SumPeaks(_)
SumPeaks(n) == IF n = 0 THEN 0 ELSE hist.peak[n] + SumPeaks(n - 1)

\* C22: threads producing and dropping handles on one pool lose no return
\* and duplicate no Request.  Every constructed Request is on the free-list
\* exactly once or held through exactly one handle, never both; and the
\* Requests constructed are at most the threads' peak numbers of handles held
\* at once, summed, plus the reserved ones.
Inv_C22_NoLostReturn ==
    /\ \A r \in created :
           /\ InPool(r) # (hist.holder[r] # 0)
           /\ hist.holder[r] # 0 => (requests[r].userHeld /\ requests[r].refs = 1)
    /\ \A i \in 1..Len(m_requests), j \in 1..Len(m_requests) :
           m_requests[i] = m_requests[j] => i = j
    /\ Cardinality(created) <= SumPeaks(NThreads) + hist.reserved

\* Thread 1 produced a Request and returned it; thread 2 then got the same
\* object: two Produce calls, one Request constructed.
Wit_C22_ReturnedThenReused ==
    \E r \in Req :
        /\ produced = 2
        /\ created = {r}
        /\ hist.reserved = 0
        /\ hist.peak[1] = 1
        /\ hist.holder[r] = 2

\* C23: AddHeader appends in call order and keeps duplicate names and empty
\* values; after any sequence of AddHeader calls, the request headers read
\* back are the sequence of the calls.
Cex_C23_HeadersReadBack ==
    hist.op = "AddHeader" =>
        GetRequestHeaders(requests[hist.obj]) =
            {[i \in 1..Len(hist.arg) |-> hist.arg[i]]}

\* ------------------------------------------------ the response-wait timer
\* The deadline-set entries that have expired at loop time t.
Expired(ws, t) == {e \in ws : e.time <= t}

\* C24: while times_up walks the deadline set, every step pops the entry with
\* the least deadline, that deadline is <= now and the entry's Request is
\* dispatched once with RESPONSE_WAIT_TIME_TIMEOUT, nothing else leaves the
\* set and the walk does not end the process; when the walk returns no
\* expired entry is left and, the set not being empty, the timer is armed for
\* the least deadline.
Cex_C24_WalkPopsExpired ==
    [][loopPc = "walk" =>
          /\ ~crashed'
          /\ wrappers' # wrappers =>
                /\ wrappers' = wrappers \ {Begin(wrappers)}
                /\ Begin(wrappers).time <= now
                /\ LET r == Begin(wrappers).req
                   IN /\ requests'[r].cb = requests[r].cb + 1
                      /\ requests'[r].status = "RESPONSE_WAIT_TIME_TIMEOUT"
          /\ loopPc' = "idle" =>
                /\ Expired(wrappers', now) = {}
                /\ wrappers' # {} => reqTimer' = Begin(wrappers').time]_vars

\* C25: a Request's stored iterator designates an entry of its own: when two
\* Requests are admitted with the same deadline each of them has its entry
\* in the set, and no Request's iterator designates the entry of another.
Cex_C25_EqualDeadlinesOwnEntries ==
    ~crashed =>
        \A r \in Req :
            /\ \A e \in NodeOf(wrappers, requests[r].iter) : e.req = r
            /\ (r \in registered /\ requests[r].wait # None /\ ~requests[r].called)
                   => Entries(r) # {}

\* Request r has been admitted by a drain and its completion has not been
\* dispatched.
AwaitingCompletion(r) == r \in registered /\ ~requests[r].called

\* C26: between loop handlers the deadline set holds an entry for a Request
\* exactly when the Request has a response wait time, has been admitted by a
\* drain and has not had its completion dispatched.
Cex_C26_EntryIffAwaiting ==
    (~crashed /\ loopPc = "idle") =>
        \A r \in Req :
            Entries(r) # {} <=> (AwaitingCompletion(r) /\ requests[r].wait # None)

\* C27: every erase on the deadline set is given an entry that is in the set.
\* No erase of an absent entry has ended the process, and the entry the
\* timer walk is about to pass to onComplete and then to erase is not the
\* one its Request's stored iterator designates (onComplete erases that one).
Cex_C27_ErasedEntryInSet ==
    /\ ~crashed
    /\ (loopPc = "walk" /\ WalkContinues) =>
           \A e \in NodeOf(wrappers, cursor) : requests[e.req].iter # cursor

Cex_C29_TimerCoversMinimum ==
    (~crashed /\ loopPc = "idle" /\ wrappers # {}) =>
        /\ reqTimer # 0
        /\ reqTimer <= Begin(wrappers).time

\* ------------------------------------------------------------- progress
\* The loop thread runs a handler that is ready (uv_run), the destructor's
\* thread goes on polling and closing, a StartRequest that has passed the
\* test goes on to the push, and the engine reports a registered transfer
\* in the end.
Fairness ==
    /\ WF_vars(AcceptSwap)
    /\ WF_vars(AcceptOne)
    /\ WF_vars(AcceptEnd)
    /\ WF_vars(TimesUp)
    /\ WF_vars(WalkStep)
    /\ WF_vars(WalkEnd)
    /\ WF_vars(\E r \in Req : CheckActions(r))
    /\ WF_vars(\E r \in Req : StartRequestPush(r))
    /\ WF_vars(HasUnfinishedCount("dtor"))
    /\ WF_vars(HasUnfinishedPending)
    /\ WF_vars(DtorClose)

LiveSpec == Init /\ [][Next]_vars /\ Fairness

\* Every accepted Request has had its completion dispatched: none is between
\* the test and the push of StartRequest, pending, grabbed by a drain or
\* registered with the engine.
AllDispatched ==
    /\ \A r \in Req : startPc[r] = "none"
    /\ m_pending_requests = <<>>
    /\ m_grabbed_requests = <<>>
    /\ loopPc = "idle"
    /\ registered = {}

\* C30: once the destructor waits and every accepted Request has had its
\* completion dispatched, the destructor's wait ends and the destructor
\* closes the loop (unless the process was aborted before).
Cex_C30_DestructorReturns ==
    (dtorPc = "waiting" /\ AllDispatched) ~> (dtorPc = "closed" \/ crashed)

\* ------------------------------------------------- closing the event loop
\* The destructor from line 140 on, a line at a time, against the loop
\* thread's uv_run.  hist.closing: the handles uv_close was called on;
\* hist.closed: the handles whose close callback has run (m_async_closed,
\* m_timeout_timer_closed, m_request_timer_closed); hist.stop: uv_stop was
\* called; hist.running: uv_run has not returned (m_is_running).
Handles == {"m_timeout_timer", "m_request_timer", "m_async"}

\* The order of the uv_close calls (EventLoop.cpp:141, 143, 144).
CloseOrder == <<"m_timeout_timer", "m_request_timer", "m_async">>

\* What the close sequence leaves alone.
CloseUnchanged ==
    UNCHANGED <<requests, created, m_requests, produced, m_is_stopping,
                m_pending_requests, m_grabbed_requests, m_active_request_count,
                wrappers, registered, now, loopPc, drainIdx, cursor, crashed,
                startPc, huPc>>

\* uv_timer_stop / uv_close on the next handle (EventLoop.cpp:140-144).
DtorUvClose ==
    /\ dtorPc = "closing"
    /\ Cardinality(hist.closing) < Len(CloseOrder)
    /\ LET h == CloseOrder[Cardinality(hist.closing) + 1]
       IN /\ hist' = [hist EXCEPT !.closing = @ \cup {h}]
          /\ reqTimer' = IF h = "m_request_timer" THEN 0 ELSE reqTimer
    /\ UNCHANGED <<dtorPc, asyncSent>>
    /\ CloseUnchanged

\* uv_async_send and uv_stop (EventLoop.cpp:145-146).
DtorUvStop ==
    /\ dtorPc = "closing"
    /\ hist.closing = Handles
    /\ hist' = [hist EXCEPT !.stop = TRUE]
    /\ dtorPc' = "closed"
    /\ asyncSent' = TRUE
    /\ UNCHANGED reqTimer
    /\ CloseUnchanged

\* The wait at EventLoop.cpp:148-150 ends: its condition
\* !m_timeout_timer_closed && !m_async_closed is false.
DtorWaitClosed ==
    /\ dtorPc = "closed"
    /\ ~("m_timeout_timer" \notin hist.closed /\ "m_async" \notin hist.closed)
    /\ dtorPc' = "joining"
    /\ UNCHANGED <<hist, reqTimer, asyncSent>>
    /\ CloseUnchanged

\* m_background_thread.join() returns (EventLoop.cpp:152): run() has returned.
DtorJoin ==
    /\ dtorPc = "joining"
    /\ ~hist.running
    /\ dtorPc' = "joined"
    /\ UNCHANGED <<hist, reqTimer, asyncSent>>
    /\ CloseUnchanged

\* The loop thread, at the end of an iteration of uv_run: the close callback
\* of every handle that is closing runs (uv_close_callback,
\* EventLoop.cpp:361-376).
UvRunClosingHandles ==
    /\ hist.running
    /\ hist.closing \ hist.closed # {}
    /\ hist' = [hist EXCEPT !.closed = hist.closing]
    /\ UNCHANGED <<dtorPc, reqTimer, asyncSent>>
    /\ CloseUnchanged

\* uv_run sees the stop flag and returns; run() returns (EventLoop.cpp:245-246).
UvRunReturns ==
    /\ hist.running
    /\ hist.stop
    /\ hist' = [hist EXCEPT !.running = FALSE]
    /\ UNCHANGED <<dtorPc, reqTimer, asyncSent>>
    /\ CloseUnchanged

CloseNext ==
    \/ \E r \in Req : Reserve(r)
    \/ \E r \in Req, w \in WaitTimes : Produce(r, w)
    \/ \E r \in Req : UserDrop(r)
    \/ DtorBegin
    \/ HasUnfinishedCount("dtor")
    \/ HasUnfinishedPending
    \/ DtorUvClose
    \/ DtorUvStop
    \/ DtorWaitClosed
    \/ DtorJoin
    \/ UvRunClosingHandles
    \/ UvRunReturns

CloseSpec == Init /\ [][CloseNext]_vars

\* C31: when the destructor has called uv_stop, and when it goes on to the
\* join, the close callback of the async notifier and of both timers has run.
Cex_C31_AllClosedBeforeStop ==
    (hist.stop \/ dtorPc \in {"joining", "joined"}) => hist.closed = Handles

\* ----------------------------------------------------- who runs a step
\* The steps of the background thread: the callbacks uv_run dispatches
\* (requests_accept_async, times_up, the poll and timeout callbacks that end
\* in checkActions, the engine's write callbacks) and uv_run itself.
LoopThreadStep ==
    \/ \E r \in Req : CheckActions(r)
    \/ \E r \in Req : CurlWriteData(r)
    \/ \E r \in Req : CurlWriteHeader(r)
    \/ AcceptSwap
    \/ AcceptOne
    \/ AcceptEnd
    \/ TimesUp
    \/ WalkStep
    \/ WalkEnd
    \/ Tick

\* C32: a step that starts or stops the response-wait timer, changes the
\* deadline set or changes the set of transfers registered with the engine
\* is a step of the loop's background thread.
Cex_C32_LoopStateOnLoopThread ==
    [][(\/ reqTimer' # reqTimer
        \/ wrappers' # wrappers
        \/ registered' # registered) => LoopThreadStep]_vars

\* ------------------------------------------- m_pending_requests_lock
\* StartRequest, the drain and HasUnfinishedRequests with the lock_guards as
\* steps of their own.  hist.lock: the holder of m_pending_requests_lock,
\* <<"start", r>> (the StartRequest of Request r), <<"loop", 0>>,
\* <<"hu", 0>> (HasUnfinishedRequests) or Unlocked.  hist.touch: whether the
\* thread that last read or wrote m_pending_requests held the lock.
Unlocked == <<"free", 0>>

\* What the steps of a user thread on the lock leave alone.
LockUserUnchanged ==
    /\ UNCHANGED <<created, m_requests, produced, m_is_stopping, wrappers,
                   crashed, dtorPc>>
    /\ LoopUnchanged

\* What the steps of the loop thread on the lock leave alone.
LockLoopUnchanged ==
    /\ UNCHANGED <<requests, m_requests, wrappers, registered, reqTimer, now,
                   cursor, crashed>>
    /\ UNCHANGED <<created, produced, m_is_stopping, startPc, dtorPc, huPc>>

\* Variant: the drain's guard is still held after the swap.
DrainGuardHeld(holder) == holder

\* The end of the guard's scope in requests_accept_async (EventLoop.cpp:427).
DrainGuardEnd(holder) == Unlocked

\* StartRequest, the lock_guard's constructor (EventLoop.cpp:193).
LkStartLock(r) ==
    /\ startPc[r] = "checked"
    /\ hist.lock = Unlocked
    /\ hist' = [hist EXCEPT !.lock = <<"start", r>>]
    /\ startPc' = [startPc EXCEPT ![r] = "locked"]
    /\ UNCHANGED <<requests, m_pending_requests, asyncSent, huPc>>
    /\ LockUserUnchanged

\* StartRequest, the emplace_back and the end of the guard's scope
\* (EventLoop.cpp:194-195).
LkStartPush(r) ==
    /\ startPc[r] = "locked"
    /\ m_pending_requests' = emplace_back(m_pending_requests, r)
    /\ hist' = [hist EXCEPT !.waiting = Append(@, r), !.pushed = Append(@, r),
                            !.touch = IF hist.lock = <<"start", r>>
                                      THEN "locked" ELSE "unlocked",
                            !.lock = Unlocked]
    /\ startPc' = [startPc EXCEPT ![r] = "pushed"]
    /\ requests' = [requests EXCEPT ![r].loopHeld = TRUE]
    /\ UNCHANGED <<asyncSent, huPc>>
    /\ LockUserUnchanged

\* StartRequest, uv_async_send and return true (EventLoop.cpp:196-198).
LkStartSend(r) ==
    /\ startPc[r] = "pushed"
    /\ asyncSent' = TRUE
    /\ startPc' = [startPc EXCEPT ![r] = "none"]
    /\ requests' = [requests EXCEPT ![r].accepted = TRUE]
    /\ UNCHANGED <<m_pending_requests, huPc, hist>>
    /\ LockUserUnchanged

\* requests_accept_async is dispatched and takes the lock (EventLoop.cpp:424).
LkDrainLock ==
    /\ Dispatching
    /\ asyncSent
    /\ hist.lock = Unlocked
    /\ asyncSent' = FALSE
    /\ hist' = [hist EXCEPT !.lock = <<"loop", 0>>]
    /\ loopPc' = "swap"
    /\ UNCHANGED <<m_pending_requests, m_grabbed_requests,
                   m_active_request_count, drainIdx>>
    /\ LockLoopUnchanged

\* The swap and the end of the guard's scope (EventLoop.cpp:426-427).
LkDrainSwap ==
    /\ loopPc = "swap"
    /\ m_grabbed_requests' = m_pending_requests
    /\ m_pending_requests' = m_grabbed_requests
    /\ hist' = [hist EXCEPT !.touch = IF hist.lock = <<"loop", 0>>
                                      THEN "locked" ELSE "unlocked",
                            !.lock = DrainGuardEnd(@)]
    /\ loopPc' = "drain"
    /\ drainIdx' = 1
    /\ UNCHANGED <<m_active_request_count, asyncSent>>
    /\ LockLoopUnchanged

\* The tail of requests_accept_async (EventLoop.cpp:487-495).  The test of
\* m_pending_requests.empty() takes no lock; when a StartRequest is inside
\* its critical section the read races with the emplace_back and may see
\* either state of the vector.
LkDrainEnd ==
    /\ loopPc = "drain"
    /\ drainIdx > Len(m_grabbed_requests)
    /\ m_active_request_count' = m_active_request_count + Len(m_grabbed_requests)
    /\ m_grabbed_requests' = <<>>
    /\ IF hist.lock[1] = "start"
       THEN \E seen \in BOOLEAN : asyncSent' = (asyncSent \/ seen)
       ELSE asyncSent' = (asyncSent \/ m_pending_requests # <<>>)
    /\ hist' = [hist EXCEPT !.touch = IF hist.lock = <<"loop", 0>>
                                      THEN "locked" ELSE "unlocked"]
    /\ loopPc' = "idle"
    /\ drainIdx' = 0
    /\ UNCHANGED m_pending_requests
    /\ LockLoopUnchanged

\* HasUnfinishedRequests, the lock_guard's constructor (EventLoop.cpp:175).
LkHuLock ==
    /\ huPc # "idle"
    /\ hist.lock = Unlocked
    /\ hist' = [hist EXCEPT !.lock = <<"hu", 0>>]
    /\ UNCHANGED <<requests, m_pending_requests, asyncSent, startPc, huPc>>
    /\ LockUserUnchanged

\* HasUnfinishedRequests, the read of the queue and the return
\* (EventLoop.cpp:176-177).
LkHuRead ==
    /\ hist.lock = <<"hu", 0>>
    /\ huPc' = "idle"
    /\ hist' = [hist EXCEPT !.touch = "locked", !.lock = Unlocked]
    /\ UNCHANGED <<requests, m_pending_requests, asyncSent, startPc>>
    /\ LockUserUnchanged

LockNext ==
    \/ \E r \in Req : Produce(r, None)
    \/ \E r \in Req : StartRequestCheck(r)
    \/ \E r \in Req : LkStartLock(r)
    \/ \E r \in Req : LkStartPush(r)
    \/ \E r \in Req : LkStartSend(r)
    \/ HasUnfinishedCount("user")
    \/ LkHuLock
    \/ LkHuRead
    \/ LkDrainLock
    \/ LkDrainSwap
    \/ AcceptOne
    \/ LkDrainEnd
    \/ \E r \in Req : CheckActions(r)

LockSpec == Init /\ [][LockNext]_vars

\* C33: the thread that last read or wrote the pending queue held
\* m_pending_requests_lock when it did.
Cex_C33_QueueUnderLock == hist.touch # "unlocked"

\* The steps that call into the engine or run a completion handler on the
\* loop thread: curl_multi_add_handle, curl_multi_socket_action and
\* curl_multi_info_read, Request::onComplete.
EngineStep == AcceptOne \/ \E r \in Req : CheckActions(r)

\* C34: the loop thread does not hold m_pending_requests_lock during a step
\* that calls the engine or runs a completion handler, and a StartRequest
\* does not hold it while it prepares its Request (prepareForPerform calls
\* the engine's setters).
Inv_C34_NoEngineCallUnderLock ==
    [][/\ EngineStep => (hist.lock # <<"loop", 0>> /\ hist'.lock # <<"loop", 0>>)
       /\ \A r \in Req :
              StartRequestCheck(r) => hist.lock # <<"start", r>>]_vars

\* The drain has registered a transfer while another thread holds the lock
\* for its push: the loop thread gave the lock up before the engine call.
Wit_C34_PushDuringDrain ==
    /\ loopPc = "drain"
    /\ drainIdx > 1
    /\ registered # {}
    /\ hist.lock[1] = "start"

\* ------------------------------------------------- the pool's m_mutex
\* Reserve, Produce and returnRequest with the pool's lock as steps of their
\* own.  hist.m_mutex: the thread that holds the pool's mutex (0 = none);
\* hist.tpc[t]: where thread t is inside its call; hist.tobj[t]: the Request
\* it has popped or is returning.
\* The positions at which a thread is about to construct, configure or reset
\* a Request: the Request's constructor (curl_easy_init, Request::init),
\* SetUrl / SetCurlTimeout (curl_easy_setopt), SetOnCompleteHandler (moves
\* user code in) and Request::Reset (curl_easy_reset, frees the user's mime).
EnginePositions == {"reserve_new", "produce_new", "produce_set", "return_reset"}

\* The Requests that are constructed or about to be.
Planned ==
    Cardinality(created)
        + Cardinality({t \in Threads : hist.tpc[t] \in {"reserve_new", "produce_new"}})

\* What the pool's calls leave alone.
MutexUnchanged ==
    /\ UNCHANGED <<wrappers, crashed>>
    /\ NoLoop

\* RequestPool::Reserve(1) is entered by thread t: the lock_guard at the top
\* (RequestPool.cpp:8).
MxReserveBegin(t) ==
    /\ hist.tpc[t] = "idle"
    /\ Planned < NReq
    /\ hist.m_mutex = 0
    /\ hist' = [hist EXCEPT !.m_mutex = t, !.tpc[t] = "reserve_new"]
    /\ UNCHANGED <<requests, created, m_requests, produced>>
    /\ MutexUnchanged

\* Reserve, the loop body: new Request, emplace_back (RequestPool.cpp:9-18).
MxReserveNew(t) ==
    /\ hist.tpc[t] = "reserve_new"
    /\ LET r == NextObject
       IN /\ created' = created \cup {r}
          /\ requests' = [requests EXCEPT ![r] = Construct(0, 0, None, 1)]
          /\ m_requests' = Append(m_requests, r)
    /\ hist' = [hist EXCEPT !.tpc[t] = "reserve_end", !.reserved = @ + 1]
    /\ UNCHANGED produced
    /\ MutexUnchanged

\* Reserve returns: the guard goes out of scope (RequestPool.cpp:20).
MxReserveEnd(t) ==
    /\ hist.tpc[t] = "reserve_end"
    /\ hist' = [hist EXCEPT !.tpc[t] = "idle", !.m_mutex = 0]
    /\ UNCHANGED <<requests, created, m_requests, produced>>
    /\ MutexUnchanged

\* Produce takes the lock (RequestPool.cpp:59).  The thread holds no handle.
MxProduceLock(t) ==
    /\ hist.tpc[t] = "idle"
    /\ HeldBy(hist.holder, t) = {}
    /\ produced < MaxProduce
    /\ m_requests # <<>> \/ Planned < NReq
    /\ hist.m_mutex = 0
    /\ produced' = produced + 1
    /\ hist' = [hist EXCEPT !.m_mutex = t, !.tpc[t] = "produce"]
    /\ UNCHANGED <<requests, created, m_requests>>
    /\ MutexUnchanged

\* Produce, the test of the free-list; both branches unlock before they go
\* on (RequestPool.cpp:61-62, 74-76).
MxProduceTest(t) ==
    /\ hist.tpc[t] = "produce"
    /\ IF m_requests = <<>>
       THEN /\ hist' = [hist EXCEPT !.m_mutex = 0, !.tpc[t] = "produce_new"]
            /\ UNCHANGED m_requests
       ELSE /\ hist' = [hist EXCEPT !.m_mutex = 0, !.tpc[t] = "produce_set",
                                    !.tobj[t] = m_requests[Len(m_requests)]]
            /\ m_requests' = SubSeq(m_requests, 1, Len(m_requests) - 1)
    /\ UNCHANGED <<requests, created, produced>>
    /\ MutexUnchanged

\* Produce, the Request is constructed and handed out (RequestPool.cpp:64-73).
MxProduceNew(t, url, h, ct, w) ==
    /\ hist.tpc[t] = "produce_new"
    /\ LET r == NextObject
       IN /\ created' = created \cup {r}
          /\ requests' = [requests EXCEPT ![r] = Handed(Construct(url, ct, w, h))]
          /\ hist' = [hist EXCEPT !.tpc[t] = "idle", !.holder[r] = t]
    /\ UNCHANGED <<m_requests, produced>>
    /\ MutexUnchanged

\* Produce, the popped Request is configured and handed out
\* (RequestPool.cpp:78-82).
MxProduceSet(t, url, h, ct, w) ==
    /\ hist.tpc[t] = "produce_set"
    /\ LET r == hist.tobj[t]
       IN /\ requests' = [requests EXCEPT ![r] = Handed(Reconfigure(@, url, ct, w, h))]
          /\ hist' = [hist EXCEPT !.tpc[t] = "idle", !.tobj[t] = 0,
                                  !.holder[r] = t]
    /\ UNCHANGED <<created, m_requests, produced>>
    /\ MutexUnchanged

\* The handle of thread t goes away: ~SharedRequest calls returnRequest,
\* which is about to reset the Request (RequestPool.cpp:88-91).
MxReturnBegin(t, r) ==
    /\ hist.tpc[t] = "idle"
    /\ hist.holder[r] = t
    /\ requests[r].userHeld
    /\ hist' = [hist EXCEPT !.tpc[t] = "return_reset", !.tobj[t] = r,
                            !.holder[r] = 0]
    /\ requests' = [requests EXCEPT ![r].userHeld = FALSE, ![r].refs = 0]
    /\ UNCHANGED <<created, m_requests, produced>>
    /\ MutexUnchanged

\* returnRequest, request->Reset() (RequestPool.cpp:91).
MxReturnReset(t) ==
    /\ hist.tpc[t] = "return_reset"
    /\ requests' = [requests EXCEPT
                       ![hist.tobj[t]] = [Reset(@) EXCEPT !.returns = @ + 1]]
    /\ hist' = [hist EXCEPT !.tpc[t] = "return_push"]
    /\ UNCHANGED <<created, m_requests, produced>>
    /\ MutexUnchanged

\* returnRequest, the locked emplace_back (RequestPool.cpp:92-95).
MxReturnPush(t) ==
    /\ hist.tpc[t] = "return_push"
    /\ hist.m_mutex = 0
    /\ m_requests' = Append(m_requests, hist.tobj[t])
    /\ hist' = [hist EXCEPT !.tpc[t] = "idle", !.tobj[t] = 0]
    /\ UNCHANGED <<requests, created, produced>>
    /\ MutexUnchanged

MutexNext ==
    \/ \E t \in Threads : MxReserveBegin(t)
    \/ \E t \in Threads : MxReserveNew(t)
    \/ \E t \in Threads : MxReserveEnd(t)
    \/ \E t \in Threads : MxProduceLock(t)
    \/ \E t \in Threads : MxProduceTest(t)
    \/ \E t \in Threads, url \in Urls, h \in Handlers, ct \in CurlTimeouts,
          w \in WaitTimes : MxProduceNew(t, url, h, ct, w)
    \/ \E t \in Threads, url \in Urls, h \in Handlers, ct \in CurlTimeouts,
          w \in WaitTimes : MxProduceSet(t, url, h, ct, w)
    \/ \E t \in Threads, r \in Req : MxReturnBegin(t, r)
    \/ \E t \in Threads : MxReturnReset(t)
    \/ \E t \in Threads : MxReturnPush(t)

MutexSpec == Init /\ [][MutexNext]_vars

\* C35: no thread holds the pool's mutex at a position where it is about to
\* construct, configure or reset a Request.
Cex_C35_PoolMutexNotAcrossEngine ==
    \A t \in Threads : hist.tpc[t] \in EnginePositions => hist.m_mutex # t

\* C36: once a Request's completion handler has run, and as long as user
\* code holds the handle it was given, no step changes the Request's
\* response headers, its response body or its count of bytes written.
Cex_C36_NoWriteAfterCompletion ==
    [][\A r \in Req :
          (requests[r].called /\ requests[r].userHeld /\ requests'[r].userHeld)
              => /\ requests'[r].respHeaders = requests[r].respHeaders
                 /\ requests'[r].respData = requests[r].respData
                 /\ requests'[r].bytesWritten = requests[r].bytesWritten]_vars

\* The statuses a completion leaves.
TerminalStatuses == RequestStatuses \ {"BUILDING", "EXECUTING"}

StartNext ==
    \/ \E r \in Req : HdrProduce(r)
    \/ \E r \in Req, name \in HeaderNames, value \in HeaderValues :
          HdrAddHeader(r, name, value)
    \/ Stop
    \/ \E r \in Req : StartRequestCheck(r)
    \/ \E r \in Req : StartRequestPush(r)

StartSpec == Init /\ [][StartNext]_vars

\* C38: a Request that StartRequest has accepted (prepared, about to be
\* pushed) has status EXECUTING, empty response buffers and an engine header
\* list that holds exactly the headers of its index, in order; a Request
\* that StartRequest has refused has status BUILDING and empty response
\* buffers, as it had before the call.
Cex_C38_StartRequestEffect ==
    \A r \in Req :
        /\ startPc[r] = "checked" =>
              LET q == requests[r]
              IN /\ q.status = "EXECUTING"
                 /\ q.respHeaders = 0 /\ q.respData = 0
                 /\ q.curlHeaders =
                        [i \in 1..Len(q.hdrIdx) |->
                            {<<q.hdrIdx[i].name, q.hdrIdx[i].value>>}]
        /\ requests[r].refused =>
              /\ requests[r].status = "BUILDING"
              /\ requests[r].respHeaders = 0 /\ requests[r].respData = 0


\* ------------------------------------------- pushed requests are drained
\* Request r is on the pending queue.
Pending(r) == \E i \in 1..Len(m_pending_requests) : m_pending_requests[i] = r

\* Request r was pushed and no drain has handled it yet: it is on the
\* pending queue or among the grabbed requests the drain has not reached.
Unhandled(r) == \E i \in 1..Len(hist.waiting) : hist.waiting[i] = r

\* C39: every Request pushed onto the pending queue is eventually taken by
\* a drain and handled there (registered with the engine or completed as
\* FAILED_TO_START), unless the process was aborted before.
Cex_C39_PushedIsDrained ==
    \A r \in Req : Pending(r) ~> (~Unhandled(r) \/ crashed)


\* --------------------------------------------------- the in-flight count
\* C40: m_active_request_count never goes below zero, and whenever the loop
\* thread is between handlers it equals the number of transfers registered
\* with the engine.
Cex_C40_CountIsRegistered ==
    /\ m_active_request_count >= 0
    /\ (~crashed /\ loopPc = "idle") =>
           m_active_request_count = Cardinality(registered)

====
